---------------------------- MODULE Spec2Model ----------------------------
(***************************************************************************)
(* Model of the interrupt-to-future bridging of the STM32 drivers:         *)
(*   - the Select3 race combinator            (src/src/select3.rs)         *)
(*   - the DMA channel completion fibers      (src/src/dma/ch.rs)          *)
(*   - the I2C detectors and the DMA read/write transaction                *)
(*                                             (src/src/i2c.rs)            *)
(*   - the UART and ADC detectors  (src/src/uart.rs, src/src/adc/mod.rs)   *)
(*   - I2CMaster                   (src/drv-i2c/src/i2c_master.rs)         *)
(*   - the driver heads' clock-enable guards and the basic timer fibers    *)
(*                                 (src/src/tim/basic.rs and the heads)    *)
(*                                                                         *)
(* The specifications share the variables:                                 *)
(*   SpecSel   Select3 driven by an arbitrary caller over three children   *)
(*   SpecDma   transfer_complete / half_transfer futures on one channel    *)
(*   Spec      the I2C read/write transaction (read_impl / write_impl)     *)
(*   SpecReuse Spec with flags raised only while a transaction is running  *)
(*   SpecDet   transfer_break / transfer_error futures of one peripheral   *)
(*   SpecLen   the entry points of I2CEn and I2CSess over buffer lengths   *)
(*   SpecArm   Spec over callers' CR1 / CR2 values and slave addresses     *)
(*   SpecTwo   two futures of one I2CEn on one DMA channel                 *)
(*   SpecFib   the detector futures of DMA, I2C, UART and ADC              *)
(*   SpecLive  Spec with fair scheduling of the task and the handlers      *)
(*   SpecMaster the transaction of I2CMaster over nested two-way select    *)
(*   SpecEn    enable / into_enabled / from_enabled of the driver heads    *)
(*   SpecDrop  Spec with a caller that drops the future at the await       *)
(*   SpecAddr  Spec over the slave addresses of a u8                       *)
(*   SpecTim   the sleep future and the interval stream of a basic timer   *)
(***************************************************************************)
EXTENDS Naturals, Sequences, FiniteSets, TLC

VARIABLES
  \* ---- Select3 (select3.rs) -------------------------------------------
  s3_stored,   \* Select3.0 is Some((a, b, c))
  s3_out,      \* the Output3 returned by the poll that resolved, or NoOut
  s3_last,     \* the last poll of Select3: what it saw, polled and returned
  s3_npolls,   \* calls of Select3::poll so far
  s3_readies,  \* how many of them returned Poll::Ready
  s3_cnt,      \* per child: how often Select3 polled it
  s3_cntAtOut, \* s3_cnt at the poll that resolved
  \* ---- futures and the interrupt lines' fiber chains ------------------
  fut,         \* per future: NoFut, Pending, a value, Taken or Dropped
  chain,       \* per interrupt line: the fibers attached by add_future
  isr,         \* the status flags that are set (DMA ISR and I2C ISR)
  pend,        \* the interrupt lines with a pending request
  inv,         \* the closure invocations of the last handler run: per
               \* invocation the flags seen, the clear bits written, the result
  raised,      \* flags raised by the hardware so far
  \* ---- the I2C transaction (i2c.rs read_impl / write_impl) ------------
  pc,          \* position of the task inside read_impl / write_impl
  call,        \* the arguments of the call in progress
  calls,       \* calls entered so far
  regs,        \* DMA CPAR, CMAR, CNDTR, CCR and I2C CR1, CR2 as last stored
  xfer,        \* the call whose START store began the transfer on the bus
  result,      \* the value the call returned, or NoResult
  log,         \* the register stores, registrations, drops and triggers
               \* of the call in progress, in program order
  \* ---- the driver heads (enable / into_enabled / from_enabled) --------
  heads        \* the clock-enable bits that are set (bit) and those that
               \* were set at construction (preset), the heads with a live
               \* guard or enabled handle, those used and released so far,
               \* and the head whose setup panicked

s3vars == <<s3_stored, s3_out, s3_last, s3_npolls, s3_readies, s3_cnt, s3_cntAtOut>>
hwvars == <<fut, chain, isr, pend, inv, raised>>
txvars == <<pc, call, calls, regs, xfer, result, log>>
vars == <<s3vars, hwvars, txvars, heads>>

(***************************************************************************)
(* Bounds of the model.                                                    *)
(***************************************************************************)
MaxPolls == 3
MaxRaise == 2
MaxCalls == 2
MaxFuts == 3
MaxHeads == 2
MaxPreset == 1
MaxPulses == 3

(***************************************************************************)
(* Select3 (src/src/select3.rs; the copy in drv-i2c/src/i2c_sess.rs is     *)
(* the same code).                                                         *)
(***************************************************************************)
Children == <<"A", "B", "C">>
ChildSet == {"A", "B", "C"}
Pending == "Pending"
NoFut == "NoFut"
Taken == "Taken"
Dropped == "Dropped"
NoOut == [tag |-> "none", val |-> "none"]
Vals == {"v1", "v2"}

\* What polling a child future returns: Pending, or its value.
PollChild(st) == IF st \in {Pending, NoFut, Taken, Dropped} THEN Pending ELSE st

\* Mutants of Select3::poll.
\* Mutant: a poll that finds all three pending gives up with A's success.
Select3PollGivesUp(stored, r) ==
  IF ~stored
    THEN [panic |-> TRUE, polled |-> <<>>, tag |-> "none", val |-> "none", stored |-> FALSE]
  ELSE IF r["A"] # Pending
    THEN [panic |-> FALSE, polled |-> <<"A">>, tag |-> "A", val |-> r["A"], stored |-> FALSE]
  ELSE IF r["B"] # Pending
    THEN [panic |-> FALSE, polled |-> <<"A", "B">>, tag |-> "B", val |-> r["B"], stored |-> FALSE]
  ELSE IF r["C"] # Pending
    THEN [panic |-> FALSE, polled |-> <<"A", "B", "C">>, tag |-> "C", val |-> r["C"], stored |-> FALSE]
  ELSE [panic |-> FALSE, polled |-> <<"A", "B", "C">>, tag |-> "A", val |-> "Ok", stored |-> FALSE]

Select3PollBFirst(stored, r) ==
  IF ~stored
    THEN [panic |-> TRUE, polled |-> <<>>, tag |-> "none", val |-> "none", stored |-> FALSE]
  ELSE IF r["B"] # Pending
    THEN [panic |-> FALSE, polled |-> <<"B">>, tag |-> "B", val |-> r["B"], stored |-> FALSE]
  ELSE IF r["A"] # Pending
    THEN [panic |-> FALSE, polled |-> <<"B", "A">>, tag |-> "A", val |-> r["A"], stored |-> FALSE]
  ELSE IF r["C"] # Pending
    THEN [panic |-> FALSE, polled |-> <<"B", "A", "C">>, tag |-> "C", val |-> r["C"], stored |-> FALSE]
  ELSE [panic |-> FALSE, polled |-> <<"B", "A", "C">>, tag |-> "none", val |-> "none", stored |-> TRUE]

Select3PollEager(stored, r) ==
  IF ~stored
    THEN [panic |-> TRUE, polled |-> <<>>, tag |-> "none", val |-> "none", stored |-> FALSE]
  ELSE IF r["A"] # Pending
    THEN [panic |-> FALSE, polled |-> <<"A", "B", "C">>, tag |-> "A", val |-> r["A"], stored |-> FALSE]
  ELSE IF r["B"] # Pending
    THEN [panic |-> FALSE, polled |-> <<"A", "B", "C">>, tag |-> "B", val |-> r["B"], stored |-> FALSE]
  ELSE IF r["C"] # Pending
    THEN [panic |-> FALSE, polled |-> <<"A", "B", "C">>, tag |-> "C", val |-> r["C"], stored |-> FALSE]
  ELSE [panic |-> FALSE, polled |-> <<"A", "B", "C">>, tag |-> "none", val |-> "none", stored |-> TRUE]

Select3PollKeep(stored, r) ==
  IF ~stored
    THEN [panic |-> TRUE, polled |-> <<>>, tag |-> "none", val |-> "none", stored |-> FALSE]
  ELSE IF r["A"] # Pending
    THEN [panic |-> FALSE, polled |-> <<"A">>, tag |-> "A", val |-> r["A"], stored |-> TRUE]
  ELSE IF r["B"] # Pending
    THEN [panic |-> FALSE, polled |-> <<"A", "B">>, tag |-> "B", val |-> r["B"], stored |-> TRUE]
  ELSE IF r["C"] # Pending
    THEN [panic |-> FALSE, polled |-> <<"A", "B", "C">>, tag |-> "C", val |-> r["C"], stored |-> TRUE]
  ELSE [panic |-> FALSE, polled |-> <<"A", "B", "C">>, tag |-> "none", val |-> "none", stored |-> TRUE]

Select3PollNoPanic(stored, r) ==
  IF ~stored
    THEN [panic |-> FALSE, polled |-> <<>>, tag |-> "none", val |-> "none", stored |-> FALSE]
  ELSE IF r["A"] # Pending
    THEN [panic |-> FALSE, polled |-> <<"A">>, tag |-> "A", val |-> r["A"], stored |-> FALSE]
  ELSE IF r["B"] # Pending
    THEN [panic |-> FALSE, polled |-> <<"A", "B">>, tag |-> "B", val |-> r["B"], stored |-> FALSE]
  ELSE IF r["C"] # Pending
    THEN [panic |-> FALSE, polled |-> <<"A", "B", "C">>, tag |-> "C", val |-> r["C"], stored |-> FALSE]
  ELSE [panic |-> FALSE, polled |-> <<"A", "B", "C">>, tag |-> "none", val |-> "none", stored |-> TRUE]

Select3PollNoStore(stored, r) ==
  IF ~stored
    THEN [panic |-> TRUE, polled |-> <<>>, tag |-> "none", val |-> "none", stored |-> FALSE]
  ELSE IF r["A"] # Pending
    THEN [panic |-> FALSE, polled |-> <<"A">>, tag |-> "A", val |-> r["A"], stored |-> FALSE]
  ELSE IF r["B"] # Pending
    THEN [panic |-> FALSE, polled |-> <<"A", "B">>, tag |-> "B", val |-> r["B"], stored |-> FALSE]
  ELSE IF r["C"] # Pending
    THEN [panic |-> FALSE, polled |-> <<"A", "B", "C">>, tag |-> "C", val |-> r["C"], stored |-> FALSE]
  ELSE [panic |-> FALSE, polled |-> <<"A", "B", "C">>, tag |-> "none", val |-> "none", stored |-> FALSE]

\* Select3::poll. `stored` is whether self.0 is Some; r[x] is what child x
\* returns if polled now.  take() empties the storage; expect() panics on
\* None; A, B, C are polled in turn and the first ready one ends the poll;
\* only the all-pending arm puts the tuple back.
\* Mutant: the children are polled in the order C, B, A.
Select3PollReversed(stored, r) ==
  IF ~stored THEN [panic |-> TRUE, polled |-> <<>>, tag |-> "none", val |-> "none", stored |-> FALSE]
  ELSE IF r["C"] # Pending THEN [panic |-> FALSE, polled |-> <<"C">>, tag |-> "C", val |-> r["C"], stored |-> FALSE]
  ELSE IF r["B"] # Pending THEN [panic |-> FALSE, polled |-> <<"C", "B">>, tag |-> "B", val |-> r["B"], stored |-> FALSE]
  ELSE IF r["A"] # Pending THEN [panic |-> FALSE, polled |-> <<"C", "B", "A">>, tag |-> "A", val |-> r["A"], stored |-> FALSE]
  ELSE [panic |-> FALSE, polled |-> <<"C", "B", "A">>, tag |-> "none", val |-> "none", stored |-> TRUE]

Select3Poll(stored, r) ==
  IF ~stored
    THEN [panic |-> TRUE, polled |-> <<>>, tag |-> "none", val |-> "none", stored |-> FALSE]
  ELSE IF r["A"] # Pending
    THEN [panic |-> FALSE, polled |-> <<"A">>, tag |-> "A", val |-> r["A"], stored |-> FALSE]
  ELSE IF r["B"] # Pending
    THEN [panic |-> FALSE, polled |-> <<"A", "B">>, tag |-> "B", val |-> r["B"], stored |-> FALSE]
  ELSE IF r["C"] # Pending
    THEN [panic |-> FALSE, polled |-> <<"A", "B", "C">>, tag |-> "C", val |-> r["C"], stored |-> FALSE]
  ELSE [panic |-> FALSE, polled |-> <<"A", "B", "C">>, tag |-> "none", val |-> "none", stored |-> TRUE]

Range(s) == {s[i] : i \in 1..Len(s)}

NoPoll == [kind |-> "none", polled |-> <<>>, seen |-> [x \in ChildSet |-> NoFut]]

\* The effect of one call of Select3::poll on the combinator's state and on
\* the three futures it holds (the future that is ready gives up its value).
DoSelect3Poll ==
  LET r == [x \in ChildSet |-> PollChild(fut[x])]
      p == Select3Poll(s3_stored, r)
      kind == IF p.panic THEN "panic" ELSE IF p.tag = "none" THEN "pending" ELSE "ready"
      cnt == [x \in ChildSet |->
               s3_cnt[x] + Cardinality({i \in 1..Len(p.polled) : p.polled[i] = x})]
  IN /\ s3_stored' = p.stored
     /\ s3_last' = [kind |-> kind, polled |-> p.polled, seen |-> fut]
     /\ s3_npolls' = s3_npolls + 1
     /\ s3_readies' = s3_readies + (IF kind = "ready" THEN 1 ELSE 0)
     /\ s3_cnt' = cnt
     /\ s3_out' = IF kind = "ready" THEN [tag |-> p.tag, val |-> p.val] ELSE s3_out
     /\ s3_cntAtOut' = IF kind = "ready" THEN cnt ELSE s3_cntAtOut
     /\ fut' = IF kind = "ready" THEN [fut EXCEPT ![p.tag] = Taken] ELSE fut

\* Select3::new(a, b, c)
Select3New ==
  /\ s3_stored' = TRUE
  /\ s3_out' = NoOut
  /\ s3_last' = NoPoll
  /\ s3_npolls' = 0
  /\ s3_readies' = 0
  /\ s3_cnt' = [x \in ChildSet |-> 0]
  /\ s3_cntAtOut' = [x \in ChildSet |-> 0]

S3Init ==
  /\ s3_stored = TRUE
  /\ s3_out = NoOut
  /\ s3_last = NoPoll
  /\ s3_npolls = 0
  /\ s3_readies = 0
  /\ s3_cnt = [x \in ChildSet |-> 0]
  /\ s3_cntAtOut = [x \in ChildSet |-> 0]

HwIdle ==
  /\ chain = [l \in {"dma", "ev", "er"} |-> <<>>]
  /\ isr = {}
  /\ pend = {}
  /\ inv = <<>>
  /\ raised = 0

\* CR2 by fields; other holds the bits set outside the fields set_i2c_cr2
\* writes (RELOAD, STOP, NACK, PECBYTE, HEAD10R).
Cr2Reset == [add10 |-> FALSE, sadd |-> 0, rd_wrn |-> FALSE, nbytes |-> 0,
             autoend |-> FALSE, start |-> FALSE, other |-> {}]
NoCall == [drv |-> "none", dir |-> "none", len |-> 0, autoend |-> FALSE, addr |-> 0,
           cr1val |-> {}, cr2val |-> Cr2Reset]
NoPc == [at |-> "idle", i |-> 0, br |-> "none"]
NoResult == [ok |-> FALSE, variant |-> "none", val |-> "none"]

\* No driver head is in use and every clock-enable bit is clear.
NoHeads == [bit |-> {}, preset |-> {}, guard |-> {}, enabled |-> {}, released |-> {},
            used |-> {}, panic |-> "none"]

TxIdle ==
  /\ pc = NoPc
  /\ call = NoCall
  /\ calls = 0
  /\ regs = [cpar |-> "none", cmar |-> "none", cndtr |-> 0, ccr |-> {}, cr1 |-> {},
             cr2 |-> Cr2Reset]
  /\ xfer = 0
  /\ result = NoResult
  /\ log = <<>>

(***************************************************************************)
(* SpecSel: Select3::new(a, b, c) over three pending futures, polled by an *)
(* arbitrary caller while the children resolve on their own.               *)
(***************************************************************************)
SelPanicked == s3_last.kind = "panic"

SelInit ==
  /\ S3Init
  /\ fut = [x \in ChildSet |-> Pending]
  /\ HwIdle
  /\ TxIdle
  /\ heads = NoHeads

\* A child future becomes ready with value v (whether or not Select3 still
\* holds it: a future handed back in Output3 can resolve later).
SelChildReady ==
  /\ ~SelPanicked
  /\ \E x \in ChildSet, v \in Vals :
       /\ fut[x] = Pending
       /\ fut' = [fut EXCEPT ![x] = v]
  /\ UNCHANGED <<s3vars, chain, isr, pend, inv, raised, txvars>>
  /\ UNCHANGED heads

\* The caller polls the combinator.  A panic ends the program.
SelPoll ==
  /\ ~SelPanicked
  /\ s3_npolls < MaxPolls
  /\ DoSelect3Poll
  /\ UNCHANGED <<chain, isr, pend, inv, raised, txvars>>
  /\ UNCHANGED heads

SelNext == SelChildReady \/ SelPoll

SpecSel == SelInit /\ [][SelNext]_vars


(***************************************************************************)
(* Claims about Select3, checked under SpecSel.                            *)
(***************************************************************************)
ReadyAt(seen, x) == PollChild(seen[x]) # Pending
IndexOf(x) == CHOOSE i \in 1..3 : Children[i] = x
IsPrefixOfChildren(s) == Len(s) <= 3 /\ \A i \in 1..Len(s) : s[i] = Children[i]

\* C1: a poll that finds the children stored polls them in the order A, B,
\* C and resolves with the first one in that order that is ready: with
\* several ready in the same poll, A's output wins over B's over C's.
C1_PollOrder ==
  s3_last.kind \in {"pending", "ready"} =>
    LET seen == s3_last.seen
        first == IF ReadyAt(seen, "A") THEN "A"
                 ELSE IF ReadyAt(seen, "B") THEN "B"
                 ELSE IF ReadyAt(seen, "C") THEN "C" ELSE "none"
    IN /\ IsPrefixOfChildren(s3_last.polled)
       /\ s3_last.polled # <<>>
       /\ (first = "none") = (s3_last.kind = "pending")
       /\ s3_last.kind = "ready" =>
            /\ s3_out.tag = first
            /\ s3_out.val = seen[first]
            /\ s3_last.polled[Len(s3_last.polled)] = first

C1_Witness ==
  /\ s3_last.kind = "ready"
  /\ s3_out.tag = "B"
  /\ ReadyAt(s3_last.seen, "C")

\* C2: in the resolving poll no child after the winner is polled, and a
\* loser that was ready keeps its value (it is handed back unpolled).
C2_LaterNotPolled ==
  s3_last.kind = "ready" =>
    \A x \in ChildSet :
      IndexOf(x) > IndexOf(s3_out.tag) =>
        /\ x \notin Range(s3_last.polled)
        /\ s3_cnt[x] = s3_npolls - 1
        /\ ReadyAt(s3_last.seen, x) => fut[x] = s3_last.seen[x]

C2_Witness ==
  /\ s3_last.kind = "ready"
  /\ s3_out.tag = "A"
  /\ ReadyAt(s3_last.seen, "B")
  /\ ReadyAt(s3_last.seen, "C")

\* C3: Select3 returns ready at most once, its output carries the value of
\* exactly one child, and after the resolution it never polls the other two.
C3_SingleResolution ==
  /\ s3_readies <= 1
  /\ (s3_readies = 1) = (s3_out # NoOut)
  /\ s3_out # NoOut =>
       /\ {x \in ChildSet : fut[x] = Taken} = {s3_out.tag}
       /\ s3_out.val \in Vals
       /\ \A x \in ChildSet : s3_cnt[x] = s3_cntAtOut[x]

C3_Witness ==
  /\ s3_out # NoOut
  /\ s3_npolls > s3_cntAtOut["A"]
  /\ \E x \in ChildSet : x # s3_out.tag /\ fut[x] \in Vals

\* C4: a poll after Select3 has returned ready panics; it returns neither a
\* second output nor pending.
C4_PollAfterReadyPanics ==
  [][(s3_out # NoOut /\ s3_npolls' > s3_npolls) =>
        (s3_last'.kind = "panic" /\ s3_out' = s3_out /\ s3_readies' = s3_readies)]_vars

C4_Witness == s3_last.kind = "panic" /\ s3_out # NoOut

\* C5: a poll in which all three children are pending puts them back and
\* returns pending, so as long as no poll resolved, the next poll is legal
\* and polls the same three children again.
C5_PendingStoresBack ==
  /\ s3_last.kind = "pending" => (s3_stored /\ s3_last.polled = Children)
  /\ s3_out = NoOut =>
       /\ s3_stored
       /\ s3_last.kind # "panic"
       /\ \A x \in ChildSet : s3_cnt[x] = s3_npolls

C5_Witness ==
  /\ s3_npolls >= 2
  /\ s3_last.kind = "pending"
  /\ s3_out = NoOut


(***************************************************************************)
(* Status flags, their interrupt lines and their clear bits.               *)
(***************************************************************************)
DmaFlags == {"TEIF", "TCIF", "HTIF"}
EvFlags == {"NACKF", "STOPF"}
ErFlags == {"BERR", "OVR", "ARLO", "TIMEOUT", "ALERT", "PECERR"}
Flags == DmaFlags \cup EvFlags \cup ErFlags
Lines == {"dma", "ev", "er"}
\* The UART's TC status flag and the ADC's ISR flags, with the lines of the
\* UART and the ADC.
UartFlags == {"TC"}
AdcFlags == {"ADRDY", "EOC"}
\* The update interrupt flag of a basic timer's SR.
TimFlags == {"UIF"}
AllLines == Lines \cup {"uart", "adc"}
LineFlags(l) ==
  CASE l = "dma" -> DmaFlags
    [] l = "ev" -> EvFlags
    [] l = "er" -> ErFlags
    [] l = "uart" -> UartFlags
    [] l = "adc" -> AdcFlags
    [] l = "tim" -> TimFlags
LineOf(fl) == IF fl \in DmaFlags THEN "dma" ELSE IF fl \in EvFlags THEN "ev" ELSE "er"

\* The status flags a write of 1 to a clear bit resets.  CGIF is the
\* channel's global clear: it resets TEIF, HTIF and TCIF together.
ClearedBy(bit) ==
  CASE bit = "CGIF" -> {"TEIF", "TCIF", "HTIF"}
    [] bit = "CTCIF" -> {"TCIF"}
    [] bit = "CHTIF" -> {"HTIF"}
    [] bit = "NACKCF" -> {"NACKF"}
    [] bit = "STOPCF" -> {"STOPF"}
    [] bit = "BERRCF" -> {"BERR"}
    [] bit = "OVRCF" -> {"OVR"}
    [] bit = "ARLOCF" -> {"ARLO"}
    [] bit = "TIMOUTCF" -> {"TIMEOUT"}
    [] bit = "ALERTCF" -> {"ALERT"}
    [] bit = "PECCF" -> {"PECERR"}
    \* uart_cr1.tcie().clear_bit(): the TC interrupt enable, not a flag
    [] bit = "TCIE=0" -> {"TCIE"}
    \* adc_isr.adrdy().set_bit(): a read-modify-write store to ISR, which
    \* writes 1 to ADRDY and to every other flag that was read as set
    [] bit = "ADRDY=1" -> AdcFlags
    \* tim_sr.uif(): the flag is cleared by writing 0; writing 1 leaves it
    [] bit = "UIF=0" -> {"UIF"}
    [] bit = "UIF=1" -> {}

HwClear(f, wrote) == f \ UNION {ClearedBy(b) : b \in wrote}

(***************************************************************************)
(* The fiber closures.  Each takes the set of status flags that are set    *)
(* when it is invoked and gives the clear bits it writes and what it       *)
(* returns: Yielded, or the value it completes with.                       *)
(***************************************************************************)
Yielded == "Yielded"
\* What a stream's fiber yields: a pulse, or nothing.
YieldedSome == "Yielded(Some(1))"
YieldedNone == "Yielded(None)"
IsYield(v) == v \in {Yielded, YieldedSome, YieldedNone}

\* Mutants of DmaChEn::transfer_complete.
TransferCompleteFibAnyEvent(f) ==
  IF "TEIF" \in f THEN [wrote |-> {"CGIF"}, res |-> "DmaTransferError"]
  ELSE IF "TCIF" \in f \/ "HTIF" \in f THEN [wrote |-> {"CTCIF"}, res |-> "Ok"]
  ELSE [wrote |-> {}, res |-> Yielded]

TransferCompleteFibEventFirst(f) ==
  IF "TCIF" \in f THEN [wrote |-> {"CTCIF"}, res |-> "Ok"]
  ELSE IF "TEIF" \in f THEN [wrote |-> {"CGIF"}, res |-> "DmaTransferError"]
  ELSE [wrote |-> {}, res |-> Yielded]

\* DmaChEn::transfer_complete (and Dma::transfer_complete of drv-dma).
TransferCompleteFib(f) ==
  IF "TEIF" \in f THEN [wrote |-> {"CGIF"}, res |-> "DmaTransferError"]
  ELSE IF "TCIF" \in f THEN [wrote |-> {"CTCIF"}, res |-> "Ok"]
  ELSE [wrote |-> {}, res |-> Yielded]

\* DmaChEn::half_transfer (and Dma::half_transfer of drv-dma).
HalfTransferFib(f) ==
  IF "TEIF" \in f THEN [wrote |-> {"CGIF"}, res |-> "DmaTransferError"]
  ELSE IF "HTIF" \in f THEN [wrote |-> {"CHTIF"}, res |-> "Ok"]
  ELSE [wrote |-> {}, res |-> Yielded]

\* Mutant of I2CEn::transfer_break: STOPF is tested before NACKF.
TransferBreakFibStopFirst(f) ==
  IF "STOPF" \in f THEN [wrote |-> {"STOPCF"}, res |-> "Stop"]
  ELSE IF "NACKF" \in f THEN [wrote |-> {"NACKCF"}, res |-> "Nack"]
  ELSE [wrote |-> {}, res |-> Yielded]

\* Mutant of I2CEn::transfer_error: ARLO is tested before OVR.
TransferErrorFibNeverCompletes(f) == [wrote |-> {}, res |-> Yielded]

TransferErrorFibArloFirst(f) ==
  IF "BERR" \in f THEN [wrote |-> {"BERRCF"}, res |-> "Berr"]
  ELSE IF "ARLO" \in f THEN [wrote |-> {"ARLOCF"}, res |-> "Arlo"]
  ELSE IF "OVR" \in f THEN [wrote |-> {"OVRCF"}, res |-> "Ovr"]
  ELSE IF "TIMEOUT" \in f THEN [wrote |-> {"TIMOUTCF"}, res |-> "Timeout"]
  ELSE IF "ALERT" \in f THEN [wrote |-> {"ALERTCF"}, res |-> "Alert"]
  ELSE IF "PECERR" \in f THEN [wrote |-> {"PECCF"}, res |-> "Pecerr"]
  ELSE [wrote |-> {}, res |-> Yielded]

\* I2CEn::transfer_break.
TransferBreakFib(f) ==
  IF "NACKF" \in f THEN [wrote |-> {"NACKCF"}, res |-> "Nack"]
  ELSE IF "STOPF" \in f THEN [wrote |-> {"STOPCF"}, res |-> "Stop"]
  ELSE [wrote |-> {}, res |-> Yielded]

\* I2CEn::transfer_error.
TransferErrorFib(f) ==
  IF "BERR" \in f THEN [wrote |-> {"BERRCF"}, res |-> "Berr"]
  ELSE IF "OVR" \in f THEN [wrote |-> {"OVRCF"}, res |-> "Ovr"]
  ELSE IF "ARLO" \in f THEN [wrote |-> {"ARLOCF"}, res |-> "Arlo"]
  ELSE IF "TIMEOUT" \in f THEN [wrote |-> {"TIMOUTCF"}, res |-> "Timeout"]
  ELSE IF "ALERT" \in f THEN [wrote |-> {"ALERTCF"}, res |-> "Alert"]
  ELSE IF "PECERR" \in f THEN [wrote |-> {"PECCF"}, res |-> "Pecerr"]
  ELSE [wrote |-> {}, res |-> Yielded]

\* UartEn::transmission_complete.
TransmissionCompleteFib(f) ==
  IF "TC" \in f THEN [wrote |-> {"TCIE=0"}, res |-> "Unit"]
  ELSE [wrote |-> {}, res |-> Yielded]

\* Mutant of AdcEn::ready: completes without the store to ISR.
ReadyFibNoClear(f) ==
  IF "ADRDY" \in f THEN [wrote |-> {}, res |-> "Unit"]
  ELSE [wrote |-> {}, res |-> Yielded]

\* AdcEn::ready.
ReadyFib(f) ==
  IF "ADRDY" \in f THEN [wrote |-> {"ADRDY=1"}, res |-> "Unit"]
  ELSE [wrote |-> {}, res |-> Yielded]

\* BasicTimDiverged::sleep.
SleepFib(f) ==
  IF "UIF" \in f THEN [wrote |-> {"UIF=0"}, res |-> "Unit"]
  ELSE [wrote |-> {}, res |-> Yielded]

\* BasicTimDiverged::interval_fib.
IntervalFib(f) ==
  IF "UIF" \in f THEN [wrote |-> {"UIF=1"}, res |-> YieldedSome]
  ELSE [wrote |-> {}, res |-> YieldedNone]

FibBody(kind, f) ==
  CASE kind = "tc" -> TransferCompleteFib(f)
    [] kind = "ht" -> HalfTransferFib(f)
    [] kind = "break" -> TransferBreakFib(f)
    [] kind = "error" -> TransferErrorFib(f)
    [] kind = "uart_tc" -> TransmissionCompleteFib(f)
    [] kind = "adc_ready" -> ReadyFib(f)
    [] kind = "sleep" -> SleepFib(f)
    [] kind = "interval" -> IntervalFib(f)

KindLine(kind) ==
  CASE kind \in {"tc", "ht"} -> "dma"
    [] kind = "break" -> "ev"
    [] kind = "error" -> "er"
    [] kind = "uart_tc" -> "uart"
    [] kind = "adc_ready" -> "adc"
    [] kind \in {"sleep", "interval"} -> "tim"

(***************************************************************************)
(* add_future / the interrupt handler / trigger (the IntToken interface).  *)
(* A fiber attached by add_future is resumed on every run of its line's    *)
(* handler: once its future has been dropped it is removed without its     *)
(* closure being run; when the closure completes, the value goes to the    *)
(* future and the fiber is removed; when it yields the fiber stays.        *)
(***************************************************************************)
Fiber(kind, x) == [kind |-> kind, fut |-> x, open |-> TRUE]

\* int.add_future(fib) creating future x.
AddFuture(kind, x) ==
  /\ chain' = [chain EXCEPT ![KindLine(kind)] = Append(@, Fiber(kind, x))]
  /\ fut' = [fut EXCEPT ![x] = Pending]

\* drop(x): the fibers feeding x see their channel canceled.
CancelFibers(ch, xs) ==
  [l \in Lines |->
    [i \in 1..Len(ch[l]) |->
      IF ch[l][i].fut \in xs THEN [ch[l][i] EXCEPT !.open = FALSE] ELSE ch[l][i]]]

\* Mutant of the handler: the closure of a fiber is run even after its
\* future has been dropped.
RECURSIVE RunChainRunsDropped(_, _)
RunChainRunsDropped(fs, st) ==
  IF fs = <<>> THEN st
  ELSE LET f == Head(fs)
           r == FibBody(f.kind, st.isr)
           rec == [kind |-> f.kind, fut |-> f.fut, seen |-> st.isr,
                   wrote |-> r.wrote, res |-> r.res]
       IN RunChainRunsDropped(Tail(fs),
            [isr |-> HwClear(st.isr, r.wrote),
             fut |-> IF IsYield(r.res) \/ ~f.open THEN st.fut
                     ELSE [st.fut EXCEPT ![f.fut] = r.res],
             keep |-> IF IsYield(r.res) THEN Append(st.keep, f) ELSE st.keep,
             inv |-> Append(st.inv, rec)])

\* Mutant of the handler: a fiber whose closure completed stays attached.
RECURSIVE RunChainKeepsCompleted(_, _)
RunChainKeepsCompleted(fs, st) ==
  IF fs = <<>> THEN st
  ELSE LET f == Head(fs) IN
    IF ~f.open THEN RunChainKeepsCompleted(Tail(fs), st)
    ELSE LET r == FibBody(f.kind, st.isr)
             rec == [kind |-> f.kind, fut |-> f.fut, seen |-> st.isr,
                     wrote |-> r.wrote, res |-> r.res]
         IN RunChainKeepsCompleted(Tail(fs),
              [isr |-> HwClear(st.isr, r.wrote),
               fut |-> IF IsYield(r.res) THEN st.fut ELSE [st.fut EXCEPT ![f.fut] = r.res],
               keep |-> Append(st.keep, f),
               inv |-> Append(st.inv, rec)])

RECURSIVE RunChain(_, _)
RunChain(fs, st) ==
  IF fs = <<>> THEN st
  ELSE LET f == Head(fs) IN
    IF ~f.open THEN RunChain(Tail(fs), st)
    ELSE LET r == FibBody(f.kind, st.isr)
             rec == [kind |-> f.kind, fut |-> f.fut, seen |-> st.isr,
                     wrote |-> r.wrote, res |-> r.res]
         IN RunChain(Tail(fs),
              [isr |-> HwClear(st.isr, r.wrote),
               fut |-> IF IsYield(r.res) THEN st.fut ELSE [st.fut EXCEPT ![f.fut] = r.res],
               keep |-> IF IsYield(r.res) THEN Append(st.keep, f) ELSE st.keep,
               inv |-> Append(st.inv, rec)])

\* The handler of line l after one run.
HandlerRun(l) ==
  RunChain(chain[l], [isr |-> isr, fut |-> fut, keep |-> <<>>, inv |-> <<>>])

\* One run of the handler of line l.  The request is level-sensitive: the
\* handler runs when the line was triggered (pend) and while one of the
\* line's status flags is set.
Dispatch(l) ==
  /\ l \in pend \/ LineFlags(l) \cap isr # {}
  /\ LET st == HandlerRun(l)
     IN /\ isr' = st.isr
        /\ fut' = st.fut
        /\ chain' = [chain EXCEPT ![l] = st.keep]
  /\ pend' = pend \ {l}

\* The hardware sets a status flag, which requests the flag's interrupt.
RaiseFlag(fl) ==
  /\ fl \notin isr
  /\ raised < MaxRaise
  /\ isr' = isr \cup {fl}
  /\ raised' = raised + 1

(***************************************************************************)
(* SpecDma: a caller creating, polling and dropping transfer_complete and  *)
(* half_transfer futures of one channel while the channel raises flags.    *)
(***************************************************************************)
DmaInit ==
  /\ S3Init
  /\ fut = [x \in ChildSet |-> NoFut]
  /\ HwIdle
  /\ TxIdle
  /\ heads = NoHeads

\* dma.transfer_complete() / dma.half_transfer()
DmaAddFuture ==
  /\ calls < MaxFuts
  /\ \E kind \in {"tc", "ht"}, x \in ChildSet :
       /\ fut[x] \in {NoFut, Taken, Dropped}
       /\ AddFuture(kind, x)
  /\ calls' = calls + 1
  /\ UNCHANGED <<s3vars, isr, pend, inv, raised, pc, call, regs, xfer, result, log>>
  /\ UNCHANGED heads

\* The caller polls future x: a resolved future gives up its value.
DmaPoll ==
  /\ \E x \in ChildSet :
       /\ fut[x] \notin {NoFut, Taken, Dropped}
       /\ fut' = [fut EXCEPT ![x] = IF @ = Pending THEN Pending ELSE Taken]
  /\ UNCHANGED <<s3vars, chain, isr, pend, inv, raised, txvars>>
  /\ UNCHANGED heads

\* The caller drops future x.
DmaDrop ==
  /\ \E x \in ChildSet :
       /\ fut[x] \notin {NoFut, Taken, Dropped}
       /\ fut' = [fut EXCEPT ![x] = Dropped]
       /\ chain' = CancelFibers(chain, {x})
  /\ UNCHANGED <<s3vars, isr, pend, inv, raised, txvars>>
  /\ UNCHANGED heads

DmaHwRaise ==
  /\ \E fl \in DmaFlags : RaiseFlag(fl)
  /\ UNCHANGED <<s3vars, fut, chain, pend, inv, txvars>>
  /\ UNCHANGED heads

\* The channel's handler runs; inv keeps what each closure saw and did.
DmaDispatch ==
  /\ Dispatch("dma")
  /\ inv' = HandlerRun("dma").inv
  /\ UNCHANGED <<s3vars, raised, txvars>>
  /\ UNCHANGED heads

DmaNext == DmaAddFuture \/ DmaPoll \/ DmaDrop \/ DmaHwRaise \/ DmaDispatch

SpecDma == DmaInit /\ [][DmaNext]_vars


(***************************************************************************)
(* Claims about the DMA completion fibers, checked under SpecDma.          *)
(***************************************************************************)
DmaEvent(kind) == IF kind = "tc" THEN "TCIF" ELSE "HTIF"
DmaEventClear(kind) == IF kind = "tc" THEN "CTCIF" ELSE "CHTIF"

\* C6: every invocation of a transfer_complete / half_transfer fiber does
\* exactly one of: TEIF set -> write CGIF, complete with DmaTransferError;
\* else own event flag set -> write the event's clear bit, complete with Ok;
\* else yield and write nothing (the other event's flag alone is ignored).
C6_CompletionFiber ==
  \A i \in 1..Len(inv) :
    inv[i].kind \in {"tc", "ht"} =>
      LET r == inv[i]
          ev == DmaEvent(r.kind)
      IN \/ "TEIF" \in r.seen /\ r.wrote = {"CGIF"} /\ r.res = "DmaTransferError"
         \/ "TEIF" \notin r.seen /\ ev \in r.seen
              /\ r.wrote = {DmaEventClear(r.kind)} /\ r.res = "Ok"
         \/ "TEIF" \notin r.seen /\ ev \notin r.seen /\ r.wrote = {} /\ r.res = Yielded

C6_Witness ==
  /\ \E i \in 1..Len(inv) : inv[i].kind = "tc" /\ inv[i].seen = {"HTIF"} /\ inv[i].res = Yielded
  /\ \E x \in ChildSet : fut[x] = "Ok"

\* C7: with TEIF and the awaited event flag both set at an invocation, the
\* fiber completes with DmaTransferError and does not write the event's own
\* clear bit.
C7_ErrorFirst ==
  \A i \in 1..Len(inv) :
    (inv[i].kind \in {"tc", "ht"}
       /\ "TEIF" \in inv[i].seen /\ DmaEvent(inv[i].kind) \in inv[i].seen) =>
      /\ inv[i].res = "DmaTransferError"
      /\ DmaEventClear(inv[i].kind) \notin inv[i].wrote
      /\ inv[i].wrote = {"CGIF"}

C7_Witness ==
  /\ \E i \in 1..Len(inv) : inv[i].kind = "tc" /\ {"TEIF", "TCIF"} \subseteq inv[i].seen
  /\ \E x \in ChildSet : fut[x] = "DmaTransferError"


(***************************************************************************)
(* The I2C DMA transaction: I2CEn::read_impl / write_impl (src/src/i2c.rs).*)
(* The body runs inside the task's poll of the returned future, one        *)
(* statement per step, so that interrupt handlers can run between any two  *)
(* statements.                                                             *)
(***************************************************************************)
MaxBufLen == 255
Lens == {MaxBufLen, MaxBufLen + 1}
SlaveAddrs == {80}

\* The status flags the hardware raises in the transaction model: the DMA
\* channel's three, the two break flags and the two error flags of highest
\* priority.
TxFlags == DmaFlags \cup EvFlags \cup {"BERR", "OVR"}

\* Mutants of init_dma_rx_ccr / init_dma_tx_ccr: TEIE left clear; DIR left
\* clear for a write.
InitDmaRxCcrNoTeie == {"MINC", "TCIE"}
InitDmaTxCcrNoDir == {"MINC", "TEIE", "TCIE"}

\* init_dma_rx_ccr / init_dma_tx_ccr: the bits set in the baseline value.
InitDmaRxCcr == {"MINC", "TEIE", "TCIE"}
InitDmaTxCcr == {"MINC", "DIR", "TEIE", "TCIE"}
InitDmaCcr(dir) == IF dir = "read" THEN InitDmaRxCcr ELSE InitDmaTxCcr

\* Mutant of the CR1 store: the caller's bits are not kept.
ArmCr1Overwrite(val, dir) ==
  {"PE", "ERRIE", "NACKIE", IF dir = "read" THEN "RXDMAEN" ELSE "TXDMAEN"}

\* The CR1 value stored by read_impl / write_impl over the caller's value.
ArmCr1(val, dir) ==
  val \cup {"PE", "ERRIE", "NACKIE", IF dir = "read" THEN "RXDMAEN" ELSE "TXDMAEN"}

\* Mutants of set_i2c_cr2: ADD10 is left as the caller gave it; AUTOEND is
\* left as the caller gave it.
SetI2cCr2KeepAdd10(val, slave_addr, autoend, nbytes, write) ==
  [val EXCEPT !.sadd = (slave_addr * 2) % 256,
              !.rd_wrn = ~write,
              !.nbytes = nbytes,
              !.autoend = autoend,
              !.start = TRUE]

SetI2cCr2KeepAutoend(val, slave_addr, autoend, nbytes, write) ==
  [val EXCEPT !.add10 = FALSE,
              !.sadd = (slave_addr * 2) % 256,
              !.rd_wrn = ~write,
              !.nbytes = nbytes,
              !.start = TRUE]

\* Mutant of set_i2c_cr2: the address is widened before it is shifted.
SetI2cCr2WidenFirst(val, slave_addr, autoend, nbytes, write) ==
  [val EXCEPT !.add10 = FALSE,
              !.sadd = slave_addr * 2,
              !.rd_wrn = ~write,
              !.nbytes = nbytes,
              !.autoend = autoend,
              !.start = TRUE]

\* set_i2c_cr2.  slave_addr << 1 is a u8 shift; SADD and NBYTES are written
\* as given.
SetI2cCr2(val, slave_addr, autoend, nbytes, write) ==
  [val EXCEPT !.add10 = FALSE,
              !.sadd = (slave_addr * 2) % 256,
              !.rd_wrn = ~write,
              !.nbytes = nbytes,
              !.autoend = autoend,
              !.start = TRUE]

\* From<DmaTransferError>, From<I2CBreak>, From<I2CError> for I2CDmaError.
OkResult == [ok |-> TRUE, variant |-> "none", val |-> "none"]
FromDmaTransferError(v) == [ok |-> FALSE, variant |-> "Dma", val |-> v]
FromI2CBreakAsError(v) == [ok |-> FALSE, variant |-> "I2CError", val |-> v]
FromI2CBreak(v) == [ok |-> FALSE, variant |-> "I2CBreak", val |-> v]
FromI2CError(v) == [ok |-> FALSE, variant |-> "I2CError", val |-> v]

\* Mutant of the length check: a buffer of 255 bytes is refused.
LenOverflowAt255(len) == len >= MaxBufLen

\* if buf.len() > 255 { panic!(..) }
LenOverflow(len) == len > MaxBufLen

\* Mutant of the statement order: the length is checked after the DMA
\* memory address has been written.
BodyOrderCheckLate ==
  <<"set_maddr", "check_len", "set_size", "ccr_arm", "cr1_arm",
    "transfer_complete", "transfer_break", "transfer_error", "cr2_start",
    "select3_new">>

\* Mutant of the statement order: the channel is enabled before the memory
\* address and the size are written.
BodyOrderArmFirst ==
  <<"check_len", "ccr_arm", "set_maddr", "set_size", "cr1_arm",
    "transfer_complete", "transfer_break", "transfer_error", "cr2_start",
    "select3_new">>

\* Mutant of the statement order: START is stored twice.
BodyOrderStartTwice ==
  <<"check_len", "set_maddr", "set_size", "ccr_arm", "cr1_arm",
    "transfer_complete", "transfer_break", "transfer_error", "cr2_start",
    "cr2_start", "select3_new">>

\* Mutant of the statement order: START is stored before transfer_error()
\* registers its fiber.
BodyOrderStartEarly ==
  <<"check_len", "set_maddr", "set_size", "ccr_arm", "cr1_arm",
    "transfer_complete", "transfer_break", "cr2_start", "transfer_error",
    "select3_new">>

\* The statements of read_impl / write_impl up to the await, in program order.
BodyOrder ==
  <<"check_len", "set_maddr", "set_size", "ccr_arm", "cr1_arm",
    "transfer_complete", "transfer_break", "transfer_error", "cr2_start",
    "select3_new">>

\* The match arm taken for an Output3.
Branch(out) ==
  IF out.tag = "A" THEN (IF out.val = "Ok" THEN "A_ok" ELSE "A_err")
  ELSE out.tag

Op(op, arg) == [op |-> op, arg |-> arg, was |-> "none"]

\* Mutant of the match arms: the break arm drops the break future and the
\* error future.
CleanupWrongDrop(br) ==
  CASE br \in {"A_ok", "A_err"} ->
         <<Op("drop", "B"), Op("drop", "C"), Op("ccr_reset", "none"),
           Op("trigger", "ev"), Op("trigger", "er"), Op("return", "none")>>
    [] br = "B" ->
         <<Op("drop", "B"), Op("drop", "C"), Op("ccr_reset", "none"),
           Op("trigger", "dma"), Op("trigger", "er"), Op("return", "none")>>
    [] br = "C" ->
         <<Op("drop", "A"), Op("drop", "B"), Op("ccr_reset", "none"),
           Op("trigger", "dma"), Op("trigger", "ev"), Op("return", "none")>>

\* Mutant of the match arms: the break arm returns without the CCR store.
CleanupNoCcrReset(br) ==
  CASE br \in {"A_ok", "A_err"} ->
         <<Op("drop", "B"), Op("drop", "C"), Op("ccr_reset", "none"),
           Op("trigger", "ev"), Op("trigger", "er"), Op("return", "none")>>
    [] br = "B" ->
         <<Op("drop", "A"), Op("drop", "C"),
           Op("trigger", "dma"), Op("trigger", "er"), Op("return", "none")>>
    [] br = "C" ->
         <<Op("drop", "A"), Op("drop", "B"), Op("ccr_reset", "none"),
           Op("trigger", "dma"), Op("trigger", "ev"), Op("return", "none")>>

\* Mutant of the match arms: the error arm triggers the DMA line and its
\* own (error) line.
CleanupTriggerOwn(br) ==
  CASE br \in {"A_ok", "A_err"} ->
         <<Op("drop", "B"), Op("drop", "C"), Op("ccr_reset", "none"),
           Op("trigger", "ev"), Op("trigger", "er"), Op("return", "none")>>
    [] br = "B" ->
         <<Op("drop", "A"), Op("drop", "C"), Op("ccr_reset", "none"),
           Op("trigger", "dma"), Op("trigger", "er"), Op("return", "none")>>
    [] br = "C" ->
         <<Op("drop", "A"), Op("drop", "B"), Op("ccr_reset", "none"),
           Op("trigger", "dma"), Op("trigger", "er"), Op("return", "none")>>

\* Mutant of the match arms: the break arm triggers the DMA line before it
\* drops the DMA future.
CleanupTriggerFirst(br) ==
  CASE br \in {"A_ok", "A_err"} ->
         <<Op("drop", "B"), Op("drop", "C"), Op("ccr_reset", "none"),
           Op("trigger", "ev"), Op("trigger", "er"), Op("return", "none")>>
    [] br = "B" ->
         <<Op("trigger", "dma"), Op("drop", "A"), Op("drop", "C"), Op("ccr_reset", "none"),
           Op("trigger", "er"), Op("return", "none")>>
    [] br = "C" ->
         <<Op("drop", "A"), Op("drop", "B"), Op("ccr_reset", "none"),
           Op("trigger", "dma"), Op("trigger", "ev"), Op("return", "none")>>

\* Mutant of the match arms: the error arm triggers the DMA line only.
CleanupOneTrigger(br) ==
  CASE br \in {"A_ok", "A_err"} ->
         <<Op("drop", "B"), Op("drop", "C"), Op("ccr_reset", "none"),
           Op("trigger", "ev"), Op("trigger", "er"), Op("return", "none")>>
    [] br = "B" ->
         <<Op("drop", "A"), Op("drop", "C"), Op("ccr_reset", "none"),
           Op("trigger", "dma"), Op("trigger", "er"), Op("return", "none")>>
    [] br = "C" ->
         <<Op("drop", "A"), Op("drop", "B"), Op("ccr_reset", "none"),
           Op("trigger", "dma"), Op("return", "none")>>

\* The statements of each match arm, in program order.
Cleanup(br) ==
  CASE br \in {"A_ok", "A_err"} ->
         <<Op("drop", "B"), Op("drop", "C"), Op("ccr_reset", "none"),
           Op("trigger", "ev"), Op("trigger", "er"), Op("return", "none")>>
    [] br = "B" ->
         <<Op("drop", "A"), Op("drop", "C"), Op("ccr_reset", "none"),
           Op("trigger", "dma"), Op("trigger", "er"), Op("return", "none")>>
    [] br = "C" ->
         <<Op("drop", "A"), Op("drop", "B"), Op("ccr_reset", "none"),
           Op("trigger", "dma"), Op("trigger", "ev"), Op("return", "none")>>

\* The value each match arm returns.
ArmResult(br, out) ==
  CASE br = "A_ok" -> OkResult
    [] br = "A_err" -> FromDmaTransferError(out.val)
    [] br = "B" -> FromI2CBreak(out.val)
    [] br = "C" -> FromI2CError(out.val)

Init ==
  /\ S3Init
  /\ fut = [x \in ChildSet |-> NoFut]
  /\ HwIdle
  /\ TxIdle
  /\ heads = NoHeads

\* i2c.read / read_and_stop / write / write_and_stop: the call builds the
\* future of the async fn; nothing of its body has run yet.
TxCall ==
  /\ pc.at \in {"idle", "done"}
  /\ calls < MaxCalls
  /\ \E dir \in {"read", "write"}, len \in Lens, autoend \in BOOLEAN, addr \in SlaveAddrs :
       call' = [drv |-> "I2CEn", dir |-> dir, len |-> len, autoend |-> autoend,
                addr |-> addr, cr1val |-> {}, cr2val |-> Cr2Reset]
  /\ calls' = calls + 1
  /\ pc' = [at |-> "created", i |-> 0, br |-> "none"]
  /\ result' = NoResult
  /\ log' = <<>>
  /\ UNCHANGED <<s3vars, hwvars, regs, xfer>>
  /\ UNCHANGED heads

\* The first poll of the future enters the body: the async fn of I2CEn at
\* its length check, the asnc block of I2CSess at the statement after it.
TxStart ==
  /\ pc.at = "created"
  /\ pc' = [at |-> "body", i |-> IF call.drv = "I2CSess" THEN 2 ELSE 1, br |-> "none"]
  /\ UNCHANGED <<s3vars, hwvars, call, calls, regs, xfer, result, log>>
  /\ UNCHANGED heads

\* One statement of the body.
TxBody ==
  /\ pc.at = "body"
  /\ LET op == BodyOrder[pc.i]
         next == [pc EXCEPT !.i = @ + 1]
     IN
     \/ /\ op = "check_len"
        /\ pc' = IF LenOverflow(call.len) THEN [pc EXCEPT !.at = "panicked"] ELSE next
        /\ UNCHANGED <<s3vars, hwvars, regs, xfer, log>>
     \/ /\ op = "set_maddr"
        /\ regs' = [regs EXCEPT !.cmar = "buf"]
        /\ log' = Append(log, Op("set_maddr", "none"))
        /\ pc' = next
        /\ UNCHANGED <<s3vars, hwvars, xfer>>
     \/ /\ op = "set_size"
        /\ regs' = [regs EXCEPT !.cndtr = call.len]
        /\ log' = Append(log, Op("set_size", "none"))
        /\ pc' = next
        /\ UNCHANGED <<s3vars, hwvars, xfer>>
     \/ /\ op = "ccr_arm"
        /\ regs' = [regs EXCEPT !.ccr = InitDmaCcr(call.dir) \cup {"EN"}]
        /\ log' = Append(log, Op("ccr_store", "EN"))
        /\ pc' = next
        /\ UNCHANGED <<s3vars, hwvars, xfer>>
     \/ /\ op = "cr1_arm"
        /\ regs' = [regs EXCEPT !.cr1 = ArmCr1(call.cr1val, call.dir)]
        /\ log' = Append(log, Op("cr1_store", "none"))
        /\ pc' = next
        /\ UNCHANGED <<s3vars, hwvars, xfer>>
     \/ /\ op = "transfer_complete"
        /\ AddFuture("tc", "A")
        /\ log' = Append(log, Op("add_future", "A"))
        /\ pc' = next
        /\ UNCHANGED <<s3vars, isr, pend, inv, raised, regs, xfer>>
     \/ /\ op = "transfer_break"
        /\ AddFuture("break", "B")
        /\ log' = Append(log, Op("add_future", "B"))
        /\ pc' = next
        /\ UNCHANGED <<s3vars, isr, pend, inv, raised, regs, xfer>>
     \/ /\ op = "transfer_error"
        /\ AddFuture("error", "C")
        /\ log' = Append(log, Op("add_future", "C"))
        /\ pc' = next
        /\ UNCHANGED <<s3vars, isr, pend, inv, raised, regs, xfer>>
     \/ /\ op = "cr2_start"
        /\ regs' = [regs EXCEPT !.cr2 =
                      SetI2cCr2(call.cr2val, call.addr, call.autoend, call.len,
                                call.dir = "write")]
        /\ xfer' = calls
        /\ log' = Append(log, Op("cr2_store", "START"))
        /\ pc' = next
        /\ UNCHANGED <<s3vars, hwvars>>
     \/ /\ op = "select3_new"
        /\ Select3New
        /\ log' = Append(log, Op("select3_new", "none"))
        /\ pc' = [at |-> "await", i |-> 0, br |-> "none"]
        /\ UNCHANGED <<hwvars, regs, xfer>>
  /\ UNCHANGED <<call, calls, result>>
  /\ UNCHANGED heads

\* The task polls the Select3 it awaits: once when the await is reached,
\* then each time a detector that resolved has woken it.
TxPoll ==
  /\ pc.at = "await"
  /\ s3_npolls = 0 \/ \E x \in ChildSet : PollChild(fut[x]) # Pending
  /\ DoSelect3Poll
  /\ pc' = IF s3_out' # NoOut
             THEN [at |-> "cleanup", i |-> 1, br |-> Branch(s3_out')]
             ELSE pc
  /\ UNCHANGED <<chain, isr, pend, inv, raised, call, calls, regs, xfer, result, log>>
  /\ UNCHANGED heads

\* Mutant of the match arms' statements: the CCR store is followed by a
\* CR1 store that clears PE.
CleanupStepDisarm(c, ret) ==
  /\ LET next == [pc EXCEPT !.i = @ + 1]
     IN
     \/ /\ c.op = "drop"
        /\ fut' = [fut EXCEPT ![c.arg] = Dropped]
        /\ chain' = CancelFibers(chain, {c.arg})
        /\ log' = Append(log, [c EXCEPT !.was = fut[c.arg]])
        /\ pc' = next
        /\ UNCHANGED <<isr, pend, inv, raised, regs, result>>
     \/ /\ c.op = "ccr_reset"
        /\ regs' = [regs EXCEPT !.ccr = InitDmaCcr(call.dir), !.cr1 = @ \ {"PE"}]
        /\ log' = Append(log, Op("ccr_store", "baseline"))
        /\ pc' = next
        /\ UNCHANGED <<hwvars, result>>
     \/ /\ c.op = "trigger"
        /\ pend' = pend \cup {c.arg}
        /\ log' = Append(log, c)
        /\ pc' = next
        /\ UNCHANGED <<fut, chain, isr, inv, raised, regs, result>>
     \/ /\ c.op = "return"
        /\ result' = ret
        /\ pc' = [at |-> "done", i |-> 0, br |-> pc.br]
        /\ UNCHANGED <<hwvars, regs, log>>
  /\ UNCHANGED <<s3vars, call, calls, xfer>>

\* One statement of the match arm taken.
CleanupStep(c, ret) ==
  /\ LET next == [pc EXCEPT !.i = @ + 1]
     IN
     \/ /\ c.op = "drop"
        /\ fut' = [fut EXCEPT ![c.arg] = Dropped]
        /\ chain' = CancelFibers(chain, {c.arg})
        /\ log' = Append(log, [c EXCEPT !.was = fut[c.arg]])
        /\ pc' = next
        /\ UNCHANGED <<isr, pend, inv, raised, regs, result>>
     \/ /\ c.op = "ccr_reset"
        /\ regs' = [regs EXCEPT !.ccr = InitDmaCcr(call.dir)]
        /\ log' = Append(log, Op("ccr_store", "baseline"))
        /\ pc' = next
        /\ UNCHANGED <<hwvars, result>>
     \/ /\ c.op = "trigger"
        /\ pend' = pend \cup {c.arg}
        /\ log' = Append(log, c)
        /\ pc' = next
        /\ UNCHANGED <<fut, chain, isr, inv, raised, regs, result>>
     \/ /\ c.op = "return"
        /\ result' = ret
        /\ pc' = [at |-> "done", i |-> 0, br |-> pc.br]
        /\ UNCHANGED <<hwvars, regs, log>>
  /\ UNCHANGED <<s3vars, call, calls, xfer>>

TxCleanup ==
  /\ pc.at = "cleanup"
  /\ CleanupStep(Cleanup(pc.br)[pc.i], ArmResult(pc.br, s3_out))
  /\ UNCHANGED heads

\* The hardware raises a status flag: the I2C flags once a transfer has
\* been started on the bus, the DMA flags while the channel is enabled too.
TxHwRaise ==
  /\ xfer > 0
  /\ \E fl \in TxFlags :
       /\ fl \in DmaFlags => "EN" \in regs.ccr
       /\ RaiseFlag(fl)
  /\ UNCHANGED <<s3vars, fut, chain, pend, inv, txvars>>
  /\ UNCHANGED heads

TxDispatch ==
  /\ \E l \in Lines : Dispatch(l)
  /\ UNCHANGED <<s3vars, inv, raised, txvars>>
  /\ UNCHANGED heads

Next ==
  \/ TxCall \/ TxStart \/ TxBody \/ TxPoll \/ TxCleanup
  \/ TxHwRaise \/ TxDispatch

Spec == Init /\ [][Next]_vars


(***************************************************************************)
(* Claims about the I2C transaction, checked under Spec.                   *)
(***************************************************************************)
LogOps(l) == {[op |-> l[i].op, arg |-> l[i].arg] : i \in 1..Len(l)}
Logged(op, arg) == [op |-> op, arg |-> arg] \in LogOps(log)
Registered ==
  /\ Logged("add_future", "A")
  /\ Logged("add_future", "B")
  /\ Logged("add_future", "C")

\* C8: the CR2 store that sets START comes after the three detectors have
\* been registered on their lines (their futures exist) and after the CCR
\* enable store and the CR1 store; no flag of the transfer the call started
\* is raised before the detectors are registered.
C8_StartAfterRegistration ==
  [][/\ (xfer' # xfer \/ regs'.cr2 # regs.cr2) =>
          /\ regs'.cr2.start
          /\ \A x \in ChildSet : fut[x] \notin {NoFut, Taken, Dropped}
          /\ Registered
          /\ Logged("ccr_store", "EN") /\ "EN" \in regs.ccr
          /\ Logged("cr1_store", "none") /\ {"PE", "ERRIE", "NACKIE"} \subseteq regs.cr1
     /\ (raised' > raised /\ xfer = calls) => Registered]_vars

C8_Witness ==
  /\ xfer = calls
  /\ call.dir = "write"
  /\ pc.at = "await"
  /\ raised > 0
  /\ "NACKF" \in isr

BreakVals == {"Nack", "Stop"}
ErrorVals == {"Berr", "Ovr", "Arlo", "Timeout", "Alert", "Pecerr"}
Drops == {i \in 1..Len(log) : log[i].op = "drop"}

\* C9: a call that completes reports exactly one of Ok(()) (the DMA
\* detector won with success), Err(Dma) (it won with DmaTransferError),
\* Err(I2CBreak(Nack | Stop)) (the break detector won) and
\* Err(I2CError(variant)) (the error detector won), carrying the value of
\* the winning detector; before it completes it has reported nothing.
C9_OneOutcome ==
  /\ pc.at # "done" => result = NoResult
  /\ pc.at = "done" =>
       /\ {x \in ChildSet : fut[x] = Taken} = {s3_out.tag}
       /\ \/ s3_out = [tag |-> "A", val |-> "Ok"] /\ result = OkResult
          \/ /\ s3_out = [tag |-> "A", val |-> "DmaTransferError"]
             /\ result = [ok |-> FALSE, variant |-> "Dma", val |-> "DmaTransferError"]
          \/ /\ s3_out.tag = "B" /\ s3_out.val \in BreakVals
             /\ result = [ok |-> FALSE, variant |-> "I2CBreak", val |-> s3_out.val]
          \/ /\ s3_out.tag = "C" /\ s3_out.val \in ErrorVals
             /\ result = [ok |-> FALSE, variant |-> "I2CError", val |-> s3_out.val]

C9_Witness ==
  /\ pc.at = "done"
  /\ calls = 2
  /\ result = [ok |-> FALSE, variant |-> "I2CBreak", val |-> "Stop"]

\* C10 as claimed: a detector that did not win is still unresolved (Pending)
\* when the race hands it back and when it is dropped.
C10_LosersUnresolved ==
  /\ s3_last.kind = "ready" =>
       \A x \in ChildSet \ {s3_out.tag} : s3_last.seen[x] = Pending
  /\ \A i \in Drops : log[i].was = Pending

\* C10 as amended: the two losers are dropped without the race having taken
\* a value from them: a loser before the winner in the order A, B, C was
\* polled pending in the resolving poll, a loser after it was not polled in
\* it.  (Its fiber may have completed all the same: see C10_Witness.)
C10_LosersNotTaken ==
  /\ \A i \in Drops :
       /\ log[i].arg # s3_out.tag
       /\ log[i].was \notin {NoFut, Taken, Dropped}
       /\ IndexOf(log[i].arg) < IndexOf(s3_out.tag) => s3_last.seen[log[i].arg] = Pending
       /\ IndexOf(log[i].arg) > IndexOf(s3_out.tag) => log[i].arg \notin Range(s3_last.polled)
  /\ pc.at = "done" =>
       /\ {log[i].arg : i \in Drops} = ChildSet \ {s3_out.tag}
       /\ \A x \in ChildSet \ {s3_out.tag} : fut[x] = Dropped

\* The DMA detector won with Ok while the break detector's fiber had
\* already completed with Nack and cleared NACKF when the race handed it back.
C10_Witness ==
  /\ pc.at = "done"
  /\ result = OkResult
  /\ s3_last.seen["B"] = "Nack"
  /\ \E i \in Drops : log[i].arg = "B" /\ log[i].was = "Nack"
  /\ "NACKF" \notin isr

\* The interrupt line of each detector of the race.
ChildLine(x) == IF x = "A" THEN "dma" ELSE IF x = "B" THEN "ev" ELSE "er"
Triggers == [i \in {j \in 1..Len(log) : log[j].op = "trigger"} |-> log[i].arg]
TriggerCount(l) == Cardinality({i \in DOMAIN Triggers : Triggers[i] = l})

\* C11: when the call returns, in every branch, the channel's CCR holds the
\* disabled baseline: MINC, TEIE and TCIE set, DIR set for write and clear
\* for read, and EN, HTIE, CIRC, PINC and MEM2MEM clear.
C11_CcrBaseline ==
  pc.at = "done" =>
    /\ {"MINC", "TEIE", "TCIE"} \subseteq regs.ccr
    /\ regs.ccr \cap {"EN", "HTIE", "CIRC", "PINC", "MEM2MEM"} = {}
    /\ ("DIR" \in regs.ccr) = (call.dir = "write")
    /\ regs.ccr \subseteq {"MINC", "TEIE", "TCIE", "DIR"}

C11_Witness ==
  /\ pc.at = "done"
  /\ pc.br = "B"
  /\ call.dir = "write"
  /\ regs.ccr = {"MINC", "DIR", "TEIE", "TCIE"}
  /\ Logged("ccr_store", "EN")

\* C12: when the call returns, cleanup has triggered each of the two lines
\* other than the winner's exactly once and the winner's line not at all:
\* ev and er after a DMA win, dma and er after a break, dma and ev after an
\* error.
C12_RetriggerOthers ==
  pc.at = "done" =>
    /\ pc.br \in {"A_ok", "A_err"} =>
         TriggerCount("ev") = 1 /\ TriggerCount("er") = 1 /\ TriggerCount("dma") = 0
    /\ pc.br = "B" =>
         TriggerCount("dma") = 1 /\ TriggerCount("er") = 1 /\ TriggerCount("ev") = 0
    /\ pc.br = "C" =>
         TriggerCount("dma") = 1 /\ TriggerCount("ev") = 1 /\ TriggerCount("er") = 0

C12_Witness ==
  /\ pc.at = "done"
  /\ pc.br = "C"
  /\ result = [ok |-> FALSE, variant |-> "I2CError", val |-> "Ovr"]
  /\ TriggerCount("dma") = 1

\* C13: when several detectors are resolved at the poll that resolves the
\* race, the DMA detector wins over break and error and break wins over
\* error; the match arm taken, the lines triggered and the value returned
\* are the winner's, and a resolved loser's value is dropped unreported.
C13_TieBreak ==
  pc.at \in {"cleanup", "done"} =>
    LET seen == s3_last.seen
        first == IF seen["A"] # Pending THEN "A"
                 ELSE IF seen["B"] # Pending THEN "B" ELSE "C"
    IN /\ s3_out = [tag |-> first, val |-> seen[first]]
       /\ pc.br = (IF first = "A"
                     THEN (IF seen["A"] = "Ok" THEN "A_ok" ELSE "A_err")
                     ELSE first)
       /\ pc.at = "done" =>
            /\ result.val = (IF seen[first] = "Ok" THEN "none" ELSE seen[first])
            /\ TriggerCount(ChildLine(first)) = 0
            /\ \A x \in ChildSet \ {first} : fut[x] = Dropped

C13_Witness ==
  /\ pc.at = "done"
  /\ s3_last.seen["A"] = "DmaTransferError"
  /\ s3_last.seen["C"] = "Berr"
  /\ result = [ok |-> FALSE, variant |-> "Dma", val |-> "DmaTransferError"]
  /\ fut["C"] = Dropped


(***************************************************************************)
(* SpecReuse: the transaction as in Spec, with the hardware raising status *)
(* flags only between the START store of a call and that call's return,    *)
(* so that every flag found set after a return was raised during a         *)
(* transaction that has finished.                                          *)
(***************************************************************************)
TxHwRaiseInFlight ==
  /\ xfer = calls
  /\ pc.at \in {"body", "await", "cleanup"}
  /\ TxHwRaise
  /\ UNCHANGED heads

NextReuse ==
  \/ TxCall \/ TxStart \/ TxBody \/ TxPoll \/ TxCleanup
  \/ TxHwRaiseInFlight \/ TxDispatch

SpecReuse == Init /\ [][NextReuse]_vars

\* The status flags on which a detector of the transaction completes: every
\* flag but HTIF, which transfer_complete ignores.
ResolvingFlags == {"TEIF", "TCIF"} \cup EvFlags \cup ErFlags

\* C14 as claimed: after a call has returned and the handler passes its
\* cleanup triggered have run, no status flag is left set on which a
\* detector registered by a later call would complete.
C14_NoStaleFlags ==
  (pc.at = "done" /\ pend = {}) => isr \cap ResolvingFlags = {}

\* The false resolution: the second call has registered its break detector
\* and has not yet stored START, and the detector already holds Nack from a
\* NACKF of the first call.
C14_FalseResolution ==
  /\ calls = 2
  /\ xfer = 1
  /\ pc.at = "body"
  /\ fut["B"] = "Nack"

\* C15: while a detector of the transaction is dropped (or not registered),
\* no step clears a status flag of its interrupt line: the handler passes
\* of the line, the one triggered by cleanup included, remove its fiber
\* without running the flag check, and the detector stays dropped.
C15_DroppedNeverClears ==
  [][\A x \in ChildSet :
       fut[x] \in {NoFut, Dropped} =>
         /\ LineFlags(ChildLine(x)) \cap isr \subseteq isr'
         /\ fut'[x] \in {fut[x], Pending}]_vars

\* After a DMA win the break detector was dropped with NACKF set; the event
\* line's handler pass triggered by cleanup has run and removed the fiber,
\* and NACKF is still set.
C15_Witness ==
  /\ pc.at = "done"
  /\ pc.br = "A_ok"
  /\ pend = {}
  /\ fut["B"] = Dropped
  /\ chain["ev"] = <<>>
  /\ \E i \in Drops : log[i].arg = "B" /\ log[i].was = Pending
  /\ "NACKF" \in isr


(***************************************************************************)
(* SpecDet: a caller creating and polling transfer_break and               *)
(* transfer_error futures of one I2C peripheral.  The peripheral starts    *)
(* with any of its event and error flags set and raises more of them.      *)
(***************************************************************************)
DetInit ==
  /\ S3Init
  /\ fut = [x \in ChildSet |-> NoFut]
  /\ chain = [l \in Lines |-> <<>>]
  /\ isr \in SUBSET (EvFlags \cup ErFlags)
  /\ pend = {}
  /\ inv = <<>>
  /\ raised = 0
  /\ TxIdle
  /\ heads = NoHeads

\* i2c.transfer_break() / i2c.transfer_error()
DetAddFuture ==
  /\ calls < MaxFuts
  /\ \E x \in {"B", "C"} :
       /\ fut[x] \in {NoFut, Taken}
       /\ AddFuture(IF x = "B" THEN "break" ELSE "error", x)
  /\ calls' = calls + 1
  /\ UNCHANGED <<s3vars, isr, pend, inv, raised, pc, call, regs, xfer, result, log>>
  /\ UNCHANGED heads

\* The caller polls a future: a resolved one gives up its value.
DetPoll ==
  /\ \E x \in {"B", "C"} :
       /\ fut[x] \notin {NoFut, Pending, Taken}
       /\ fut' = [fut EXCEPT ![x] = Taken]
  /\ UNCHANGED <<s3vars, chain, isr, pend, inv, raised, txvars>>
  /\ UNCHANGED heads

DetHwRaise ==
  /\ \E fl \in EvFlags \cup ErFlags : RaiseFlag(fl)
  /\ UNCHANGED <<s3vars, fut, chain, pend, inv, txvars>>
  /\ UNCHANGED heads

\* The handler of the event or the error line runs; inv keeps what each
\* closure saw and did.
DetDispatch ==
  /\ \E l \in {"ev", "er"} :
       /\ chain[l] # <<>>
       /\ Dispatch(l)
       /\ inv' = HandlerRun(l).inv
  /\ UNCHANGED <<s3vars, raised, txvars>>
  /\ UNCHANGED heads

DetNext == DetAddFuture \/ DetPoll \/ DetHwRaise \/ DetDispatch

SpecDet == DetInit /\ [][DetNext]_vars

\* The error flags from highest to lowest priority as the claims state it,
\* with the value reported and the clear bit of each.
ErPriority == <<"BERR", "OVR", "ARLO", "TIMEOUT", "ALERT", "PECERR">>
ErValue == <<"Berr", "Ovr", "Arlo", "Timeout", "Alert", "Pecerr">>
ErClear == <<"BERRCF", "OVRCF", "ARLOCF", "TIMOUTCF", "ALERTCF", "PECCF">>
ErTop(f) == CHOOSE i \in 1..6 :
              /\ ErPriority[i] \in f
              /\ \A j \in 1..(i - 1) : ErPriority[j] \notin f

\* C16: an invocation of the transfer_error fiber that sees an error flag
\* set completes with the value of the set flag of highest priority (BERR,
\* OVR, ARLO, TIMEOUT, ALERT, PECERR), writes that flag's clear bit only,
\* and the other flags it saw stay set; seeing none set it yields and
\* writes nothing.
C16_ErrorPriority ==
  \A i \in 1..Len(inv) :
    inv[i].kind = "error" =>
      LET r == inv[i]
          set == r.seen \cap ErFlags
      IN IF set = {}
           THEN r.res = Yielded /\ r.wrote = {}
           ELSE /\ r.res = ErValue[ErTop(set)]
                /\ r.wrote = {ErClear[ErTop(set)]}
                /\ r.seen \ {ErPriority[ErTop(set)]} \subseteq isr

C16_Witness ==
  \E i \in 1..Len(inv) :
    /\ inv[i].kind = "error"
    /\ {"OVR", "ARLO", "PECERR"} \subseteq inv[i].seen
    /\ "BERR" \notin inv[i].seen
    /\ inv[i].res = "Ovr"
    /\ {"ARLO", "PECERR"} \subseteq isr
    /\ "OVR" \notin isr

\* C17: an invocation of the transfer_break fiber completes with Nack and
\* writes only NACKCF when it sees NACKF set (STOPF, if set, stays set);
\* else completes with Stop and writes only STOPCF when it sees STOPF set;
\* else yields and writes nothing.
C17_BreakFiber ==
  \A i \in 1..Len(inv) :
    inv[i].kind = "break" =>
      LET r == inv[i] IN
      \/ /\ "NACKF" \in r.seen
         /\ r.res = "Nack" /\ r.wrote = {"NACKCF"}
         /\ "STOPF" \in r.seen => "STOPF" \in isr
      \/ /\ "NACKF" \notin r.seen /\ "STOPF" \in r.seen
         /\ r.res = "Stop" /\ r.wrote = {"STOPCF"}
      \/ /\ "NACKF" \notin r.seen /\ "STOPF" \notin r.seen
         /\ r.res = Yielded /\ r.wrote = {}

C17_Witness ==
  /\ \E i \in 1..Len(inv) :
       /\ inv[i].kind = "break"
       /\ {"NACKF", "STOPF"} \subseteq inv[i].seen
       /\ inv[i].res = "Nack"
  /\ fut["B"] = "Nack"
  /\ "STOPF" \in isr
  /\ "NACKF" \notin isr


(***************************************************************************)
(* SpecLen: the four entry points of both drivers, I2CEn (src/src/i2c.rs)  *)
(* and I2CSess (src/drv-i2c/src/i2c_sess.rs), called with buffers of       *)
(* length 0 up to twice the limit.  I2CSess::read_impl / write_impl check  *)
(* the length before building the future; the statements of the future's   *)
(* body and its match arms are those of I2CEn.  The hardware raises TCIF   *)
(* and NACKF only.                                                         *)
(***************************************************************************)
Drivers == {"I2CEn", "I2CSess"}
LenCases == {0, 1, MaxBufLen, MaxBufLen + 1, MaxBufLen * 2}
LenFlags == {"TCIF", "NACKF"}

LenCall ==
  /\ pc.at \in {"idle", "done"}
  /\ calls < MaxCalls
  /\ \E drv \in Drivers, dir \in {"read", "write"}, len \in LenCases, autoend \in BOOLEAN :
       /\ call' = [drv |-> drv, dir |-> dir, len |-> len, autoend |-> autoend,
                   addr |-> 80, cr1val |-> {}, cr2val |-> Cr2Reset]
       /\ pc' = IF drv = "I2CSess" /\ LenOverflow(len)
                  THEN [at |-> "panicked", i |-> 0, br |-> "none"]
                  ELSE [at |-> "created", i |-> 0, br |-> "none"]
  /\ calls' = calls + 1
  /\ result' = NoResult
  /\ log' = <<>>
  /\ UNCHANGED <<s3vars, hwvars, regs, xfer>>
  /\ UNCHANGED heads

LenHwRaise ==
  /\ xfer = calls
  /\ pc.at \in {"body", "await"}
  /\ \E fl \in LenFlags : RaiseFlag(fl)
  /\ UNCHANGED <<s3vars, fut, chain, pend, inv, txvars>>
  /\ UNCHANGED heads

NextLen ==
  \/ LenCall \/ TxStart \/ TxBody \/ TxPoll \/ TxCleanup
  \/ LenHwRaise \/ TxDispatch

SpecLen == Init /\ [][NextLen]_vars

\* The call has got past the length check.
Accepted ==
  \/ pc.at \in {"await", "cleanup", "done"}
  \/ pc.at = "body" /\ pc.i > 1

\* C18: for every entry point (read or write, with or without autoend) a
\* call with a buffer of at most 255 bytes never panics and gets past the
\* length check when polled; a call with 256 bytes or more never gets past
\* it and never returns a value, Ok or Err.
C18_LengthLimit ==
  /\ call.len <= 255 => pc.at # "panicked"
  /\ call.len >= 256 => ~Accepted /\ result = NoResult /\ pc.at # "done"
  /\ pc.at = "panicked" => call.len >= 256

C18_Witness ==
  /\ pc.at = "panicked"
  /\ call.drv = "I2CEn"
  /\ call.dir = "write"
  /\ call.autoend
  /\ call.len = 256
  /\ calls = 2
  /\ regs.cndtr = 255

\* C19: a call with a buffer longer than 255 bytes has no hardware effect:
\* from the call on, no step stores CMAR, CNDTR, CCR, CR1 or CR2 or starts a
\* transfer, nothing is logged, and no detector is registered.
C19_FaultBeforeEffect ==
  [][call'.len > 255 =>
       /\ regs' = regs
       /\ xfer' = xfer
       /\ log' = <<>>
       /\ \A l \in Lines : Len(chain'[l]) <= Len(chain[l])
       /\ \A x \in ChildSet : fut'[x] = Pending => fut[x] = Pending]_vars

C19_Witness ==
  /\ pc.at = "panicked"
  /\ pc.i = 1
  /\ call.len = 510
  /\ call.dir = "read"
  /\ calls = 2
  /\ regs.cndtr = 1
  /\ regs.ccr = {"MINC", "DIR", "TEIE", "TCIE"}
  /\ log = <<>>

\* C20 as claimed: the length fault is raised by the call itself: no future
\* is returned for a buffer longer than 255 bytes, and no panic happens at
\* a poll of a returned future.
C20_FaultAtCall ==
  /\ pc.at = "created" => call.len <= 255
  /\ pc.at = "panicked" => pc.i = 0

\* I2CEn::write returned a future for 256 bytes, and the first poll of that
\* future panicked.
C20_DeferredFault ==
  /\ pc.at = "panicked"
  /\ pc.i = 1
  /\ call.drv = "I2CEn"
  /\ call.len = 256
  /\ log = <<>>


(***************************************************************************)
(* SpecArm: the transaction called with caller-supplied CR1 and CR2        *)
(* values and slave addresses below and above 128, for a buffer of four    *)
(* bytes.  The                                                             *)
(* hardware raises TCIF and NACKF while the transaction is running.        *)
(***************************************************************************)
\* The caller's inputs: slave address, CR1 value and CR2 value.
ArmInputs ==
  {[addr |-> 80, cr1val |-> {}, cr2val |-> Cr2Reset],
   [addr |-> 80, cr1val |-> {"PECEN"},
    cr2val |-> [add10 |-> TRUE, sadd |-> 1023, rd_wrn |-> TRUE, nbytes |-> 9,
                autoend |-> TRUE, start |-> FALSE, other |-> {"RELOAD", "PECBYTE"}]],
   [addr |-> 200, cr1val |-> {"TXDMAEN", "RXDMAEN", "STOPIE"},
    cr2val |-> [add10 |-> TRUE, sadd |-> 2, rd_wrn |-> FALSE, nbytes |-> 255,
                autoend |-> FALSE, start |-> FALSE, other |-> {"HEAD10R"}]]}
ArmFlags == {"TCIF", "NACKF"}

ArmCall ==
  /\ pc.at \in {"idle", "done"}
  /\ calls < MaxCalls
  /\ \E dir \in {"read", "write"}, autoend \in BOOLEAN, in \in ArmInputs :
       call' = [drv |-> "I2CEn", dir |-> dir, len |-> 4, autoend |-> autoend,
                addr |-> in.addr, cr1val |-> in.cr1val, cr2val |-> in.cr2val]
  /\ calls' = calls + 1
  /\ pc' = [at |-> "created", i |-> 0, br |-> "none"]
  /\ result' = NoResult
  /\ log' = <<>>
  /\ UNCHANGED <<s3vars, hwvars, regs, xfer>>
  /\ UNCHANGED heads

ArmHwRaise ==
  /\ xfer = calls
  /\ pc.at \in {"body", "await"}
  /\ \E fl \in ArmFlags : RaiseFlag(fl)
  /\ UNCHANGED <<s3vars, fut, chain, pend, inv, txvars>>
  /\ UNCHANGED heads

NextArm ==
  \/ ArmCall \/ TxStart \/ TxBody \/ TxPoll \/ TxCleanup
  \/ ArmHwRaise \/ TxDispatch

SpecArm == Init /\ [][NextArm]_vars

\* The step is the store the call logs as op.
Stored(op) == Len(log') = Len(log) + 1 /\ log'[Len(log')].op = op
LogCount(op, arg) == Cardinality({i \in 1..Len(log) : log[i].op = op /\ log[i].arg = arg})

\* C21 as claimed: whenever the channel is enabled, TEIE, HTIE and TCIE are
\* all set with EN.
C21_AllThreeIe ==
  "EN" \in regs.ccr => {"TEIE", "HTIE", "TCIE"} \subseteq regs.ccr

\* C21 as amended: EN becomes set in one CCR store, and that store sets TEIE
\* and TCIE with it and leaves HTIE clear; while the channel is enabled TEIE
\* and TCIE are set and HTIE is clear.
C21_EnableWithIe ==
  [][/\ ("EN" \in regs'.ccr /\ "EN" \notin regs.ccr) =>
          /\ Stored("ccr_store")
          /\ {"TEIE", "TCIE"} \subseteq regs'.ccr
     /\ "EN" \in regs'.ccr => {"TEIE", "TCIE"} \subseteq regs'.ccr /\ "HTIE" \notin regs'.ccr]_vars

C21_Witness ==
  /\ pc.at = "await"
  /\ call.dir = "read"
  /\ regs.ccr = {"MINC", "TEIE", "TCIE", "EN"}
  /\ LogCount("ccr_store", "EN") = 1

\* C22: the CCR store that arms the channel comes after the memory address
\* and the size (the buffer length) have been written, is the only CCR
\* store of the arming, and stores MINC, TEIE, TCIE, EN set, DIR set for a
\* write only, and CIRC, PINC, MEM2MEM clear; the value stored at cleanup
\* is the armed value without EN.
C22_ArmDma ==
  [][/\ (Stored("ccr_store") /\ log'[Len(log')].arg = "EN") =>
          /\ Logged("set_maddr", "none") /\ regs.cmar = "buf"
          /\ Logged("set_size", "none") /\ regs.cndtr = call.len
          /\ LogCount("ccr_store", "EN") = 0 /\ LogCount("ccr_store", "baseline") = 0
          /\ regs'.ccr = {"MINC", "TEIE", "TCIE", "EN"}
                            \cup (IF call.dir = "write" THEN {"DIR"} ELSE {})
     /\ (Stored("ccr_store") /\ log'[Len(log')].arg = "baseline") =>
          /\ "EN" \in regs.ccr
          /\ regs'.ccr = regs.ccr \ {"EN"}
     /\ regs'.ccr # regs.ccr => Stored("ccr_store")]_vars

C22_Witness ==
  /\ pc.at = "done"
  /\ call.dir = "write"
  /\ call.len = 4
  /\ regs.cndtr = 4
  /\ regs.ccr = {"MINC", "DIR", "TEIE", "TCIE"}
  /\ LogCount("ccr_store", "EN") = 1

\* C23: CR1 is stored once per call, and the value stored is the caller's
\* CR1 value with PE, ERRIE, NACKIE and RXDMAEN (read) or TXDMAEN (write)
\* added; no other bit of the caller's value is changed.
C23_ArmCr1 ==
  [][/\ Stored("cr1_store") =>
          /\ regs'.cr1 = call.cr1val \cup {"PE", "ERRIE", "NACKIE"}
                            \cup (IF call.dir = "read" THEN {"RXDMAEN"} ELSE {"TXDMAEN"})
          /\ LogCount("cr1_store", "none") = 0
     /\ regs'.cr1 # regs.cr1 => Stored("cr1_store")]_vars

C23_Witness ==
  /\ pc.at = "await"
  /\ call.dir = "write"
  /\ call.cr1val = {"PECEN"}
  /\ regs.cr1 = {"PE", "ERRIE", "NACKIE", "TXDMAEN", "PECEN"}

\* C24 as claimed: the CR2 store has ADD10 clear, SADD the slave address
\* shifted left by one, RD_WRN set for a read only, NBYTES the buffer
\* length and START set; every bit of the caller's value outside ADD10,
\* SADD, RD_WRN, NBYTES and START (AUTOEND among them) is stored unchanged.
C24_Cr2FrameAll ==
  [][Stored("cr2_store") =>
       /\ ~regs'.cr2.add10
       /\ regs'.cr2.sadd = (call.addr * 2) % 256
       /\ regs'.cr2.rd_wrn = (call.dir = "read")
       /\ regs'.cr2.nbytes = call.len
       /\ regs'.cr2.start
       /\ regs'.cr2.other = call.cr2val.other
       /\ regs'.cr2.autoend = call.cr2val.autoend]_vars

\* C24 as amended: the one CR2 store of the call has ADD10 clear, SADD the
\* slave address shifted left by one within 8 bits, RD_WRN set for a read
\* only, NBYTES the buffer length, AUTOEND as the entry point gives it and
\* START set; the bits outside these six fields are the caller's.
C24_Cr2Value ==
  [][/\ Stored("cr2_store") =>
          /\ ~regs'.cr2.add10
          /\ regs'.cr2.sadd = (call.addr * 2) % 256
          /\ regs'.cr2.rd_wrn = (call.dir = "read")
          /\ regs'.cr2.nbytes = call.len
          /\ regs'.cr2.start
          /\ regs'.cr2.other = call.cr2val.other
          /\ regs'.cr2.autoend = call.autoend
          /\ LogCount("cr2_store", "START") = 0
     /\ regs'.cr2 # regs.cr2 => Stored("cr2_store")]_vars

C24_Witness ==
  /\ pc.at = "await"
  /\ call.dir = "read"
  /\ call.addr = 80
  /\ call.cr2val.add10
  /\ call.cr2val.autoend /\ ~call.autoend
  /\ regs.cr2 = [add10 |-> FALSE, sadd |-> 160, rd_wrn |-> TRUE, nbytes |-> 4,
                  autoend |-> FALSE, start |-> TRUE, other |-> {"RELOAD", "PECBYTE"}]

\* C25: the CR2 value stored has AUTOEND set for read_and_stop and
\* write_and_stop and clear for read and write, whatever AUTOEND was in the
\* caller's CR2 value.
C25_Autoend ==
  [][Stored("cr2_store") => regs'.cr2.autoend = call.autoend]_vars

C25_Witness ==
  /\ pc.at = "await"
  /\ call.dir = "write"
  /\ call.autoend /\ ~call.cr2val.autoend
  /\ regs.cr2.autoend
  /\ regs.cr2.start

\* The position in the log of the store of the cleanup baseline, or 0.
BaselineAt ==
  IF LogCount("ccr_store", "baseline") = 0 THEN 0
  ELSE CHOOSE i \in 1..Len(log) : log[i].op = "ccr_store" /\ log[i].arg = "baseline"

\* C26: a call enables the channel at most once, stores START at most once
\* and builds and resolves one race; a call that has returned, with success
\* or failure, has done each exactly once, and after the cleanup's CCR store
\* it has only triggered interrupt lines: nothing is re-armed or re-started.
C26_SinglePass ==
  /\ LogCount("ccr_store", "EN") <= 1
  /\ LogCount("cr1_store", "none") <= 1
  /\ LogCount("cr2_store", "START") <= 1
  /\ LogCount("select3_new", "none") <= 1
  /\ LogCount("ccr_store", "baseline") <= 1
  /\ pc.at = "done" =>
       /\ LogCount("ccr_store", "EN") = 1
       /\ LogCount("cr2_store", "START") = 1
       /\ LogCount("select3_new", "none") = 1
       /\ s3_readies = 1
       /\ BaselineAt > 0
       /\ \A i \in (BaselineAt + 1)..Len(log) : log[i].op = "trigger"
       /\ "EN" \notin regs.ccr

C26_Witness ==
  /\ pc.at = "done"
  /\ result = [ok |-> FALSE, variant |-> "I2CError", val |-> "Berr"]
  /\ LogCount("cr2_store", "START") = 1
  /\ s3_npolls = 2


(***************************************************************************)
(* SpecTwo: two futures of the same I2CEn on the same DMA channel.  read   *)
(* and write borrow the driver and the channel shared (&'a self,           *)
(* &'a DmaChEn), so a caller can hold the future of one call, pending at   *)
(* its await, and build and poll the future of a second call.  The second  *)
(* call is followed up to its CCR store.                                   *)
(***************************************************************************)
TwoCall ==
  /\ pc.at = "await"
  /\ s3_stored /\ s3_npolls > 0
  /\ calls < MaxCalls
  /\ \E dir \in {"read", "write"}, autoend \in BOOLEAN :
       call' = [drv |-> "I2CEn", dir |-> dir, len |-> 1, autoend |-> autoend,
                addr |-> 80, cr1val |-> {}, cr2val |-> Cr2Reset]
  /\ calls' = calls + 1
  /\ pc' = [at |-> "created", i |-> 0, br |-> "second"]
  /\ result' = NoResult
  /\ log' = <<>>
  /\ UNCHANGED <<s3vars, hwvars, regs, xfer>>
  /\ UNCHANGED heads

TwoStart ==
  /\ pc.at = "created"
  /\ pc' = [at |-> "body", i |-> 1, br |-> pc.br]
  /\ UNCHANGED <<s3vars, hwvars, call, calls, regs, xfer, result, log>>
  /\ UNCHANGED heads

TwoBody ==
  /\ pc.br = "second" => pc.i <= 4
  /\ TxBody

NextTwo ==
  \/ TxCall \/ TwoCall \/ TwoStart \/ TwoBody \/ TxPoll \/ TxCleanup
  \/ TxHwRaise \/ TxDispatch

SpecTwo == Init /\ [][NextTwo]_vars

\* The race of an earlier call has been polled and is pending.
Racing ==
  /\ 0 < xfer /\ xfer < calls
  /\ s3_npolls > 0 /\ s3_stored /\ s3_out = NoOut

\* C27 as claimed: no call stores CCR with EN set while the race of an
\* earlier transaction on the channel is still pending.
C27_OneArmed ==
  [][(Stored("ccr_store") /\ "EN" \in regs'.ccr) => ~Racing]_vars

\* The second call has overwritten the size and stored CCR with EN while
\* the first call's race is pending on its three detectors.
C27_TwoArmed ==
  /\ Racing
  /\ pc.br = "second"
  /\ Logged("ccr_store", "EN")
  /\ regs.cndtr = 1
  /\ \A x \in ChildSet : fut[x] = Pending

\* C28: a completion future that has resolved keeps its value until it is
\* taken or dropped: its fiber is not invoked again, and while no future of
\* the channel is pending no handler pass clears a status flag, so the
\* flags of a later transfer stay set until a new future is created.
C28_ResolvesOnce ==
  [][/\ \A x \in ChildSet :
          fut[x] \notin {NoFut, Pending, Taken, Dropped} =>
            fut'[x] \in {fut[x], Taken, Dropped}
     /\ (\A x \in ChildSet : fut[x] # Pending) => isr \subseteq isr'
     /\ inv' # inv => \A i \in 1..Len(inv') : fut[inv'[i].fut] = Pending]_vars

\* A future resolved and was taken; TCIF was raised again and a handler
\* pass has run with no fiber attached: TCIF is still set.
C28_Witness ==
  /\ \E x \in ChildSet : fut[x] = Taken
  /\ \A x \in ChildSet : fut[x] # Pending
  /\ chain["dma"] = <<>>
  /\ inv = <<>>
  /\ raised = 2
  /\ "TCIF" \in isr


(***************************************************************************)
(* SpecFib: a caller creating and polling the detector futures of all the  *)
(* drivers (DMA, I2C, UART, ADC), one outstanding detector at a time,      *)
(* while the hardware sets status flags and software sets the UART's TCIE. *)
(***************************************************************************)
FibKinds == {"tc", "ht", "break", "error", "uart_tc", "adc_ready"}
FibBits == Flags \cup UartFlags \cup AdcFlags \cup {"TCIE"}

FibInit ==
  /\ S3Init
  /\ fut = [x \in ChildSet |-> NoFut]
  /\ chain = [l \in AllLines |-> <<>>]
  /\ isr = {}
  /\ pend = {}
  /\ inv = <<>>
  /\ raised = 0
  /\ TxIdle
  /\ heads = NoHeads

FibAddFuture ==
  /\ calls < MaxFuts
  /\ \E kind \in FibKinds, x \in ChildSet :
       /\ fut[x] \in {NoFut, Taken}
       /\ \A y \in ChildSet : fut[y] \in {NoFut, Taken} => IndexOf(x) <= IndexOf(y)
       /\ \A y \in ChildSet : fut[y] # Pending
       /\ AddFuture(kind, x)
  /\ calls' = calls + 1
  /\ UNCHANGED <<s3vars, isr, pend, inv, raised, pc, call, regs, xfer, result, log>>
  /\ UNCHANGED heads

FibPoll ==
  /\ \E x \in ChildSet :
       /\ fut[x] \notin {NoFut, Pending, Taken}
       /\ fut' = [fut EXCEPT ![x] = Taken]
  /\ UNCHANGED <<s3vars, chain, isr, pend, inv, raised, txvars>>
  /\ UNCHANGED heads

FibHwRaise ==
  /\ \E fl \in FibBits : RaiseFlag(fl)
  /\ UNCHANGED <<s3vars, fut, chain, pend, inv, txvars>>
  /\ UNCHANGED heads

FibDispatch ==
  /\ \E l \in AllLines :
       /\ chain[l] # <<>>
       /\ Dispatch(l)
       /\ inv' = HandlerRun(l).inv
  /\ UNCHANGED <<s3vars, raised, txvars>>
  /\ UNCHANGED heads

FibNext == FibAddFuture \/ FibPoll \/ FibHwRaise \/ FibDispatch

SpecFib == FibInit /\ [][FibNext]_vars

\* The status flag on which an invocation of a detector completed.
Observed(r) ==
  CASE r.res = "DmaTransferError" -> "TEIF"
    [] r.res = "Ok" -> DmaEvent(r.kind)
    [] r.res = "Nack" -> "NACKF"
    [] r.res = "Stop" -> "STOPF"
    [] r.res \in ErrorVals -> ErPriority[CHOOSE i \in 1..6 : ErValue[i] = r.res]
    [] r.kind = "uart_tc" -> "TC"
    [] r.kind = "adc_ready" -> "ADRDY"
\* The flags on which a detector of the kind completes.
Awaited(kind) ==
  CASE kind = "tc" -> {"TEIF", "TCIF"}
    [] kind = "ht" -> {"TEIF", "HTIF"}
    [] kind = "break" -> EvFlags
    [] kind = "error" -> ErFlags
    [] kind = "uart_tc" -> {"TC"}
    [] kind = "adc_ready" -> {"ADRDY"}
Cleared(r) == UNION {ClearedBy(b) : b \in r.wrote}

\* C29 as claimed: every invocation of a detector closure either completes
\* and clears the status flag it observed, or yields and writes nothing.
C29_ClearOrYield ==
  \A i \in 1..Len(inv) :
    \/ /\ inv[i].res # Yielded
       /\ Observed(inv[i]) \in inv[i].seen
       /\ Observed(inv[i]) \in Cleared(inv[i])
    \/ /\ inv[i].res = Yielded
       /\ inv[i].wrote = {}

\* C29 as amended: every invocation either completes on a flag it awaits
\* that was set, or finds none of them set and yields writing nothing; on
\* completion the DMA, I2C and ADC detectors clear the flag observed, and
\* UART transmission_complete clears TCIE only and leaves TC set.
C29_CompleteOrYield ==
  \A i \in 1..Len(inv) :
    LET r == inv[i] IN
    \/ /\ r.res # Yielded
       /\ Observed(r) \in r.seen \cap Awaited(r.kind)
       /\ Cardinality(r.wrote) = 1
       /\ IF r.kind = "uart_tc"
            THEN r.wrote = {"TCIE=0"} /\ "TC" \notin Cleared(r) /\ "TC" \in isr
            ELSE Observed(r) \in Cleared(r)
    \/ /\ r.res = Yielded
       /\ r.seen \cap Awaited(r.kind) = {}
       /\ r.wrote = {}

C29_Witness ==
  /\ \E i \in 1..Len(inv) :
       /\ inv[i].kind = "uart_tc"
       /\ {"TC", "TCIE"} \subseteq inv[i].seen
       /\ inv[i].res = "Unit"
  /\ isr = {"TC"}


\* A detector future that has resolved and whose value has not been taken.
Resolved(x) == fut[x] \notin {NoFut, Pending, Taken, Dropped}

\* C30: the call leaves its await only on a poll that finds a detector
\* resolved, and with that detector's value; it returns only after exactly
\* one poll was ready; and while it waits with no status flag set and no
\* detector resolved, no step completes it: there is no timeout, only the
\* hardware raising a flag lets it go on.
C30_NoTimeout ==
  [][ /\ (pc.at = "await" /\ pc'.at # "await") =>
           \E x \in ChildSet :
             /\ Resolved(x)
             /\ s3_out' = [tag |-> x, val |-> fut[x]]
             /\ fut'[x] = Taken
      /\ (pc.at = "await" /\ isr = {} /\ \A x \in ChildSet : fut[x] = Pending) =>
           /\ pc' = pc
           /\ result' = result
           /\ s3_out' = NoOut
           /\ \A x \in ChildSet : fut'[x] = Pending
           /\ isr' # {} => raised' = raised + 1
      /\ (pc'.at = "done" /\ pc.at # "done") =>
           /\ s3_readies = 1
           /\ s3_out # NoOut
           /\ raised > 0
    ]_vars

\* The second call is waiting: its race was polled once, the triggers of
\* the first call have been served, no flag is set and nothing has resolved.
C30_Witness ==
  /\ pc.at = "await"
  /\ s3_npolls = 1
  /\ s3_last.kind = "pending"
  /\ isr = {}
  /\ pend = {}
  /\ calls = 2
  /\ \A x \in ChildSet : fut[x] = Pending
  /\ result = NoResult

\* C31: in every match arm the two losing detectors are dropped, then CCR
\* is stored with the baseline, then the lines are triggered: the baseline
\* store comes after both drops, and a line is triggered only when both
\* losers are dropped, the channel is disabled at its baseline, the
\* detector of this call on that line is dropped and no fiber on the line
\* is still alive.
C31_CleanupOrder ==
  [][ /\ (Stored("ccr_store") /\ pc.at = "cleanup") =>
           /\ Cardinality(Drops) = 2
           /\ TriggerCount("dma") + TriggerCount("ev") + TriggerCount("er") = 0
           /\ Cardinality({x \in ChildSet : fut[x] = Dropped}) = 2
      /\ Stored("trigger") =>
           LET l == log'[Len(log')].arg IN
           /\ Cardinality(Drops) = 2
           /\ BaselineAt > 0
           /\ \A i \in Drops : i < BaselineAt
           /\ "EN" \notin regs.ccr
           /\ regs.ccr = InitDmaCcr(call.dir)
           /\ \A x \in ChildSet : ChildLine(x) = l => fut[x] = Dropped
           /\ \A i \in 1..Len(chain[l]) : ~chain[l][i].open
    ]_vars

\* The break arm has triggered the DMA line: the DMA detector's fiber is
\* still attached to the line, closed, and the channel is disabled.
C31_Witness ==
  /\ pc.at = "cleanup"
  /\ pc.br = "B"
  /\ "dma" \in pend
  /\ TriggerCount("dma") = 1
  /\ fut["A"] = Dropped
  /\ Len(chain["dma"]) > 0
  /\ "EN" \notin regs.ccr

\* The detectors the cleanup dropped while they were still pending.
DroppedUnresolved == {log[i].arg : i \in {j \in Drops : log[j].was = Pending}}

\* C32: when the call has returned, every line on which a detector was
\* dropped unresolved has been triggered, and a line that still holds a
\* fiber has a dispatch pending: once the triggered dispatches have run,
\* no fiber is registered on the DMA, event or error line.
C32_FibersFlushed ==
  pc.at = "done" =>
    /\ \A x \in DroppedUnresolved : TriggerCount(ChildLine(x)) = 1
    /\ \A l \in Lines : chain[l] # <<>> => l \in pend
    /\ \A l \in Lines : \A i \in 1..Len(chain[l]) : ~chain[l][i].open
    /\ pend = {} => \A l \in Lines : chain[l] = <<>>

\* Both losers were dropped unresolved and the two triggered dispatches
\* have run.
C32_Witness ==
  /\ pc.at = "done"
  /\ pc.br = "A_ok"
  /\ DroppedUnresolved = {"B", "C"}
  /\ pend = {}
  /\ \A l \in Lines : chain[l] = <<>>

(***************************************************************************)
(* SpecLive: Spec with fair scheduling.  The task runs the body and the    *)
(* match arm it is in to the end, it is polled again once a detector has   *)
(* woken it, and the handler of a line whose interrupt is requested runs.  *)
(* Neither new calls nor the hardware's flags are forced.                  *)
(***************************************************************************)
DispatchLine(l) ==
  /\ Dispatch(l)
  /\ UNCHANGED <<s3vars, inv, raised, txvars>>
  /\ UNCHANGED heads

Fairness ==
  /\ WF_vars(TxStart)
  /\ WF_vars(TxBody)
  /\ WF_vars(TxPoll)
  /\ WF_vars(TxCleanup)
  /\ \A l \in Lines : WF_vars(DispatchLine(l))

SpecLive == Init /\ [][Next]_vars /\ Fairness

\* A flag on which one of the three detectors completes is set after the
\* START store of the call in progress.
FlagAfterStart ==
  /\ xfer = calls
  /\ pc.at \in {"body", "await"}
  /\ isr \cap ResolvingFlags # {}

\* C33: under fair dispatch and fair polling, once TEIF or TCIF, NACKF or
\* STOPF, or an I2C error flag is set after START, the call eventually
\* returns.
C33_EventuallyReturns == FlagAfterStart ~> (pc.at = "done")

\* The call returned after its only flag, an I2C error flag, was raised
\* after START.
C33_Witness ==
  /\ pc.at = "done"
  /\ pc.br = "C"
  /\ calls = 1
  /\ raised = 1
  /\ isr = {}
  /\ pend = {}

(***************************************************************************)
(* SpecMaster: the transaction of I2CMaster (drv-i2c/src/i2c_master.rs),   *)
(* which awaits dma.select(i2c_break).select(i2c_error) and matches on     *)
(* nested Either values.  Future::select is the two-way race of the        *)
(* futures crate: it polls its first future, then its second, returns the  *)
(* first that is ready together with the other future, and keeps both      *)
(* when neither is.                                                        *)
(***************************************************************************)
\* Select::poll over the poll results ra, rb of its two futures.
SelectPoll(stored, ra, rb) ==
  IF ~stored THEN [panic |-> TRUE, npolled |-> 0, side |-> "none", val |-> "none", stored |-> FALSE]
  ELSE IF ra # Pending THEN [panic |-> FALSE, npolled |-> 1, side |-> "Left", val |-> ra, stored |-> FALSE]
  ELSE IF rb # Pending THEN [panic |-> FALSE, npolled |-> 2, side |-> "Right", val |-> rb, stored |-> FALSE]
  ELSE [panic |-> FALSE, npolled |-> 2, side |-> "none", val |-> "none", stored |-> TRUE]

\* dma.select(i2c_break).select(i2c_error): the outer select polls the
\* inner select, which polls A and then B, and then polls C.  The result
\* has the shape of Select3Poll's: Left(Left) is A, Left(Right) is B and
\* Right is C.
NestedSelectPoll(stored, r) ==
  LET inner == SelectPoll(stored, r["A"], r["B"])
      innerRes == IF inner.side = "none" THEN Pending ELSE inner.side
      outer == SelectPoll(stored, innerRes, r["C"])
      polled == SubSeq(Children, 1, inner.npolled) \o
                (IF outer.npolled = 2 THEN <<"C">> ELSE <<>>)
  IN IF outer.panic
       THEN [panic |-> TRUE, polled |-> <<>>, tag |-> "none", val |-> "none", stored |-> FALSE]
     ELSE IF outer.side = "Left"
       THEN [panic |-> FALSE, polled |-> polled,
             tag |-> IF inner.side = "Left" THEN "A" ELSE "B",
             val |-> inner.val, stored |-> FALSE]
     ELSE IF outer.side = "Right"
       THEN [panic |-> FALSE, polled |-> polled, tag |-> "C", val |-> outer.val, stored |-> FALSE]
     ELSE [panic |-> FALSE, polled |-> polled, tag |-> "none", val |-> "none", stored |-> TRUE]

\* One poll of the nested select by the task, on the state of the race.
DoNestedPoll ==
  LET r == [x \in ChildSet |-> PollChild(fut[x])]
      p == NestedSelectPoll(s3_stored, r)
      kind == IF p.panic THEN "panic" ELSE IF p.tag = "none" THEN "pending" ELSE "ready"
      cnt == [x \in ChildSet |->
               s3_cnt[x] + Cardinality({i \in 1..Len(p.polled) : p.polled[i] = x})]
  IN /\ s3_stored' = p.stored
     /\ s3_last' = [kind |-> kind, polled |-> p.polled, seen |-> fut]
     /\ s3_npolls' = s3_npolls + 1
     /\ s3_readies' = s3_readies + (IF kind = "ready" THEN 1 ELSE 0)
     /\ s3_cnt' = cnt
     /\ s3_out' = IF kind = "ready" THEN [tag |-> p.tag, val |-> p.val] ELSE s3_out
     /\ s3_cntAtOut' = IF kind = "ready" THEN cnt ELSE s3_cntAtOut
     /\ fut' = IF kind = "ready" THEN [fut EXCEPT ![p.tag] = Taken] ELSE fut

\* The match arm of I2CMaster taken for the nested Either.
MasterBranch(out) ==
  CASE out.tag = "A" /\ out.val = "Ok" -> "A_ok"
    [] out.tag = "A" /\ out.val # "Ok" -> "A_err"
    [] out.tag = "B" -> "B"
    [] out.tag = "C" -> "C"

\* Mutant of I2CMaster's match arms: the error arm triggers the DMA line
\* and the error line.
MasterCleanupTriggerEr(br) ==
  CASE br \in {"A_ok", "A_err"} ->
         <<Op("drop", "B"), Op("drop", "C"), Op("ccr_reset", "none"),
           Op("trigger", "ev"), Op("trigger", "er"), Op("return", "none")>>
    [] br = "B" ->
         <<Op("drop", "A"), Op("drop", "C"), Op("ccr_reset", "none"),
           Op("trigger", "dma"), Op("trigger", "er"), Op("return", "none")>>
    [] br = "C" ->
         <<Op("drop", "A"), Op("drop", "B"), Op("ccr_reset", "none"),
           Op("trigger", "dma"), Op("trigger", "er"), Op("return", "none")>>

\* The statements of I2CMaster's match arms.  The error arm's drop(rest)
\* drops the inner select, and with it the DMA and the break future.
MasterCleanup(br) ==
  CASE br \in {"A_ok", "A_err"} ->
         <<Op("drop", "B"), Op("drop", "C"), Op("ccr_reset", "none"),
           Op("trigger", "ev"), Op("trigger", "er"), Op("return", "none")>>
    [] br = "B" ->
         <<Op("drop", "A"), Op("drop", "C"), Op("ccr_reset", "none"),
           Op("trigger", "dma"), Op("trigger", "er"), Op("return", "none")>>
    [] br = "C" ->
         <<Op("drop", "A"), Op("drop", "B"), Op("ccr_reset", "none"),
           Op("trigger", "dma"), Op("trigger", "ev"), Op("return", "none")>>

\* I2CMasterError's From impls.
MasterResult(br, out) ==
  CASE br = "A_ok" -> [ok |-> TRUE, variant |-> "none", val |-> "none"]
    [] br = "A_err" -> [ok |-> FALSE, variant |-> "Dma", val |-> out.val]
    [] br = "B" -> [ok |-> FALSE, variant |-> "I2CBreak", val |-> out.val]
    [] br = "C" -> [ok |-> FALSE, variant |-> "I2CError", val |-> out.val]

\* read / read_and_stop / write / write_and_stop of I2CMaster: the length
\* is checked in the call, before the future is built.
MasterCall ==
  /\ pc.at \in {"idle", "done"}
  /\ calls < MaxCalls
  /\ \E dir \in {"read", "write"}, len \in Lens, autoend \in BOOLEAN, addr \in SlaveAddrs :
       /\ call' = [drv |-> "I2CMaster", dir |-> dir, len |-> len, autoend |-> autoend,
                   addr |-> addr, cr1val |-> {}, cr2val |-> Cr2Reset]
       /\ pc' = IF LenOverflow(len)
                  THEN [at |-> "panicked", i |-> 0, br |-> "none"]
                  ELSE [at |-> "created", i |-> 0, br |-> "none"]
  /\ calls' = calls + 1
  /\ result' = NoResult
  /\ log' = <<>>
  /\ UNCHANGED <<s3vars, hwvars, regs, xfer>>
  /\ UNCHANGED heads

\* The first poll enters the async block at set_maddr.
MasterStart ==
  /\ pc.at = "created"
  /\ pc' = [at |-> "body", i |-> 2, br |-> "none"]
  /\ UNCHANGED <<s3vars, hwvars, call, calls, regs, xfer, result, log>>
  /\ UNCHANGED heads

MasterPoll ==
  /\ pc.at = "await"
  /\ s3_npolls = 0 \/ \E x \in ChildSet : PollChild(fut[x]) # Pending
  /\ DoNestedPoll
  /\ pc' = IF s3_out' # NoOut
             THEN [at |-> "cleanup", i |-> 1, br |-> MasterBranch(s3_out')]
             ELSE pc
  /\ UNCHANGED <<chain, isr, pend, inv, raised, call, calls, regs, xfer, result, log>>
  /\ UNCHANGED heads

MasterArm ==
  /\ pc.at = "cleanup"
  /\ CleanupStep(MasterCleanup(pc.br)[pc.i], MasterResult(pc.br, s3_out))
  /\ UNCHANGED heads

NextMaster ==
  \/ MasterCall \/ MasterStart \/ TxBody \/ MasterPoll \/ MasterArm
  \/ TxHwRaise \/ TxDispatch

SpecMaster == Init /\ [][NextMaster]_vars

\* What the Select3-based transaction does on the detector states the
\* nested select saw at its last poll.
Select3OnSeen == Select3Poll(TRUE, [x \in ChildSet |-> PollChild(s3_last.seen[x])])
\* The statements a match arm has logged: its drops, its CCR store and its
\* triggers, in order.
ArmTrace(ops) ==
  [i \in 1..(Len(ops) - 1) |->
    IF ops[i].op = "ccr_reset" THEN <<"ccr_store", "baseline">> ELSE <<ops[i].op, ops[i].arg>>]
LoggedArm ==
  LET from == CHOOSE i \in 1..Len(log) : log[i].op = "select3_new"
  IN [i \in 1..(Len(log) - from) |-> <<log[from + i].op, log[from + i].arg>>]
PollResults == [ChildSet -> {Pending, "Ok", "DmaTransferError", "Nack", "Berr"}]

\* C34: I2CMaster's nested select is Select3 as a function of the three
\* poll results; the poll that resolves I2CMaster's race picks the winner
\* and value that Select3 picks on the same detector states, polling the
\* same detectors; and when the call has returned, it has returned the
\* value, run the drops, CCR store and triggers, and left the CCR that the
\* Select3-based match arm of that winner gives.
C34_MasterAsSelect3 ==
  /\ \A r \in PollResults : \A st \in BOOLEAN :
       NestedSelectPoll(st, r) = Select3Poll(st, r)
  /\ (pc.at \in {"cleanup", "done"} /\ call.drv = "I2CMaster") =>
       /\ s3_out = [tag |-> Select3OnSeen.tag, val |-> Select3OnSeen.val]
       /\ s3_last.polled = Select3OnSeen.polled
       /\ pc.br = Branch(s3_out)
  /\ (pc.at = "done" /\ call.drv = "I2CMaster") =>
       /\ result = ArmResult(Branch(s3_out), s3_out)
       /\ LoggedArm = ArmTrace(Cleanup(Branch(s3_out)))
       /\ regs.ccr = InitDmaCcr(call.dir)
       /\ \A l \in Lines : TriggerCount(l) =
            Cardinality({i \in 1..Len(Cleanup(pc.br)) :
                           Cleanup(pc.br)[i] = Op("trigger", l)})

\* I2CMaster returned a break although the error detector was resolved too.
C34_Witness ==
  /\ pc.at = "done"
  /\ call.drv = "I2CMaster"
  /\ pc.br = "B"
  /\ s3_last.seen["A"] = Pending
  /\ s3_last.seen["B"] = "Nack"
  /\ s3_last.seen["C"] = "Berr"
  /\ result = [ok |-> FALSE, variant |-> "I2CBreak", val |-> "Nack"]

(***************************************************************************)
(* SpecEn: the driver heads.  Each head owns one clock-enable bit of RCC;  *)
(* enable() and into_enabled() run setup(), the drop of the guard and      *)
(* from_enabled() run teardown().  The bit may already be set when the     *)
(* driver is constructed.  enable borrows the head mutably and             *)
(* into_enabled consumes it, so a head has at most one handle.             *)
(***************************************************************************)
Heads == {"I2C", "UART", "SPI", "DMA", "DMAMUX", "ADC", "TIM", "GPIO"}

\* Mutant of teardown: the clock-enable bit is left set.
TeardownKeepsBit(hs, h) == hs

\* fn setup(&self): panics if the bit reads set, sets it otherwise.
Setup(hs, h) ==
  IF h \in hs.bit THEN [hs EXCEPT !.panic = h]
  ELSE [hs EXCEPT !.bit = @ \cup {h}]

\* fn teardown(&mut self, ..): clear_bit() on the clock-enable bit.
Teardown(hs, h) == [hs EXCEPT !.bit = @ \ {h}]

Handles(hs) == hs.guard \cup hs.enabled

EnInit ==
  /\ S3Init
  /\ fut = [x \in ChildSet |-> NoFut]
  /\ HwIdle
  /\ TxIdle
  /\ \E b \in SUBSET Heads :
       /\ Cardinality(b) <= MaxPreset
       /\ heads = [NoHeads EXCEPT !.bit = b, !.preset = b]

\* head.enable(): setup, then the guard.
Enable ==
  /\ heads.panic = "none"
  /\ \E h \in Heads :
       /\ h \notin Handles(heads)
       /\ Cardinality(heads.used \cup {h}) <= MaxHeads
       /\ LET s == Setup(heads, h) IN
          heads' = IF s.panic # "none" THEN [s EXCEPT !.used = @ \cup {h}]
                   ELSE [s EXCEPT !.used = @ \cup {h}, !.guard = @ \cup {h}]
  /\ UNCHANGED <<s3vars, hwvars, txvars>>

\* head.into_enabled(): setup, then the enabled handle.
IntoEnabled ==
  /\ heads.panic = "none"
  /\ \E h \in Heads :
       /\ h \notin Handles(heads)
       /\ Cardinality(heads.used \cup {h}) <= MaxHeads
       /\ LET s == Setup(heads, h) IN
          heads' = IF s.panic # "none" THEN [s EXCEPT !.used = @ \cup {h}]
                   ELSE [s EXCEPT !.used = @ \cup {h}, !.enabled = @ \cup {h}]
  /\ UNCHANGED <<s3vars, hwvars, txvars>>

\* The guard returned by enable() goes out of scope: teardown.
GuardDrop ==
  /\ heads.panic = "none"
  /\ \E h \in heads.guard :
       heads' = [Teardown(heads, h) EXCEPT !.guard = @ \ {h}, !.released = @ \cup {h}]
  /\ UNCHANGED <<s3vars, hwvars, txvars>>

\* Head::from_enabled(enabled): teardown, and the head is back.
FromEnabled ==
  /\ heads.panic = "none"
  /\ \E h \in heads.enabled :
       heads' = [Teardown(heads, h) EXCEPT !.enabled = @ \ {h}, !.released = @ \cup {h}]
  /\ UNCHANGED <<s3vars, hwvars, txvars>>

EnNext == Enable \/ IntoEnabled \/ GuardDrop \/ FromEnabled

SpecEn == EnInit /\ [][EnNext]_vars

\* C35: for every head, a call of enable or into_enabled on a head whose
\* clock-enable bit is set panics and leaves every bit and handle as it
\* was, and otherwise sets that bit only and yields the handle; a release
\* clears that bit only.  So a handle implies its bit, a head whose bit was
\* clear at construction has its bit set exactly while it has a handle,
\* and a released head is left with its bit clear, ready to be enabled
\* again.
C35_EnableGuard ==
  [][ /\ \A h \in Heads :
           /\ (heads'.panic = h /\ heads.panic = "none") =>
                /\ h \in heads.bit
                /\ heads'.bit = heads.bit
                /\ Handles(heads') = Handles(heads)
           /\ (heads' # heads /\ Handles(heads') = Handles(heads)) => heads'.panic # "none"
           /\ (h \in Handles(heads') \ Handles(heads)) =>
                /\ h \notin heads.bit
                /\ heads'.bit = heads.bit \cup {h}
                /\ heads'.panic = "none"
           /\ (h \in Handles(heads) \ Handles(heads')) =>
                heads'.bit = heads.bit \ {h}
      /\ \A h \in Heads :
           /\ h \in Handles(heads') => h \in heads'.bit
           /\ h \notin heads'.preset => (h \in heads'.bit <=> h \in Handles(heads'))
           /\ (h \in heads'.released \ Handles(heads')) => h \notin heads'.bit
           /\ heads'.panic = h => h \notin Handles(heads') /\ h \in heads'.bit
    ]_vars

\* GPIO was enabled, released and enabled again, and the setup of the DMA
\* head, whose bit was set at construction, has panicked.
C35_Witness ==
  /\ "GPIO" \in heads.released
  /\ "GPIO" \in heads.enabled
  /\ "GPIO" \in heads.bit
  /\ heads.panic = "DMA"
  /\ heads.bit = {"GPIO", "DMA"}

\* The losers that had resolved when the cleanup dropped them.
DroppedResolved == {log[i].arg : i \in {j \in Drops : log[j].was \notin {Pending, NoFut}}}

\* C36 as claimed: when the first call has returned, CR1 holds the armed
\* value and one status flag, the winner's, has been consumed: every other
\* flag the hardware raised is still set.
C36_OnlyWinnersFlag ==
  (pc.at = "done" /\ calls = 1) =>
    /\ regs.cr1 = call.cr1val \cup {"PE", "ERRIE", "NACKIE",
                                      IF call.dir = "read" THEN "RXDMAEN" ELSE "TXDMAEN"}
    /\ Cardinality(isr) = raised - 1

\* C36 as amended: the statements of a match arm write neither CR1 nor CR2
\* and clear no status flag, so the call returns with CR1 at its armed
\* value and CR2 as stored at START; a status flag is cleared only in a
\* handler run in which a detector completes, on that detector's line: by
\* the winner, or by a loser that resolved before it was dropped.
C36_CleanupFrame ==
  [][ /\ pc.at = "cleanup" /\ pc' # pc =>
           /\ isr' = isr
           /\ regs'.cr1 = regs.cr1
           /\ regs'.cr2 = regs.cr2
           /\ regs'.cmar = regs.cmar
           /\ regs'.cndtr = regs.cndtr
      /\ ~(isr \subseteq isr') =>
           /\ pc' = pc
           /\ \E x \in ChildSet :
                /\ fut[x] = Pending
                /\ fut'[x] \notin {Pending, NoFut, Taken, Dropped}
                /\ isr \ isr' \subseteq LineFlags(ChildLine(x))
      /\ pc'.at = "done" =>
           /\ regs'.cr1 = call.cr1val \cup {"PE", "ERRIE", "NACKIE",
                                            IF call.dir = "read" THEN "RXDMAEN" ELSE "TXDMAEN"}
           /\ regs'.cr2.start
           /\ regs'.cr2.nbytes = call.len
    ]_vars

\* The DMA detector won while the break detector had resolved too: NACKF
\* was consumed by the loser.
C36_Witness ==
  /\ pc.at = "done"
  /\ calls = 1
  /\ pc.br = "A_ok"
  /\ DroppedResolved = {"B"}
  /\ raised = 2
  /\ isr = {}
  /\ "PE" \in regs.cr1

(***************************************************************************)
(* SpecDrop: Spec with a caller that may drop the future of read / write   *)
(* while it is suspended at the await.  read_impl holds no guard object:   *)
(* what the drop of the suspended future runs is the drop of the Select3,  *)
(* that is of the three detector futures it owns.                          *)
(***************************************************************************)
\* Mutant: dropping the suspended future also runs the cleanup of an arm.
DropGlueWithCleanup ==
  <<Op("drop", "A"), Op("drop", "B"), Op("drop", "C"),
    Op("ccr_reset", "none"), Op("trigger", "ev"), Op("trigger", "er")>>

\* The statements run by dropping the future suspended at the await.
DropGlue == <<Op("drop", "A"), Op("drop", "B"), Op("drop", "C")>>

\* The effect of a list of drops, CCR stores and triggers run in one go.
RECURSIVE RunGlue(_, _)
RunGlue(ops, st) ==
  IF ops = <<>> THEN st
  ELSE LET c == Head(ops) IN
    RunGlue(Tail(ops),
      CASE c.op = "drop" ->
             [st EXCEPT !.fut = [@ EXCEPT ![c.arg] = Dropped],
                        !.chain = CancelFibers(@, {c.arg})]
        [] c.op = "ccr_reset" ->
             [st EXCEPT !.regs = [@ EXCEPT !.ccr = InitDmaCcr(call.dir)],
                        !.log = Append(@, Op("ccr_store", "baseline"))]
        [] c.op = "trigger" ->
             [st EXCEPT !.pend = @ \cup {c.arg}, !.log = Append(@, c)])

\* The caller drops the future while the race is pending.
TxDropFuture ==
  /\ pc.at = "await"
  /\ s3_npolls > 0
  /\ s3_out = NoOut
  /\ LET st == RunGlue(DropGlue, [fut |-> fut, chain |-> chain, regs |-> regs,
                                   pend |-> pend, log |-> log])
     IN /\ fut' = st.fut
        /\ chain' = st.chain
        /\ regs' = st.regs
        /\ pend' = st.pend
        /\ log' = st.log
  /\ pc' = [at |-> "dropped", i |-> 0, br |-> "none"]
  /\ UNCHANGED <<s3vars, isr, inv, raised, call, calls, xfer, result, heads>>

NextDrop ==
  \/ TxCall \/ TxStart \/ TxBody \/ TxPoll \/ TxCleanup \/ TxDropFuture
  \/ TxHwRaise \/ TxDispatch

SpecDrop == Init /\ [][NextDrop]_vars

\* C37: dropping the future of read / write while the race is pending
\* writes no register, triggers no line and clears no flag: the channel is
\* left enabled with the armed CCR value and CR1 armed, the three detector
\* futures are dropped, and nothing resets them afterwards.
C37_DropRunsNoCleanup ==
  [][ /\ (pc'.at = "dropped" /\ pc.at # "dropped") =>
           /\ regs' = regs
           /\ pend' = pend
           /\ isr' = isr
           /\ log' = log
           /\ \A x \in ChildSet : fut'[x] = Dropped
      /\ pc'.at = "dropped" =>
           /\ regs'.ccr = InitDmaCcr(call.dir) \cup {"EN"}
           /\ {"PE", "ERRIE", "NACKIE"} \subseteq regs'.cr1
           /\ (IF call.dir = "read" THEN "RXDMAEN" ELSE "TXDMAEN") \in regs'.cr1
           /\ regs'.cr2.start
           /\ TriggerCount("dma") + TriggerCount("ev") + TriggerCount("er") = 0
           /\ pend' \subseteq pend
           /\ result' = NoResult
    ]_vars

\* The future was dropped, the transfer completed afterwards and the DMA
\* line's handler has run: the channel is still enabled and TCIF is set.
C37_Witness ==
  /\ pc.at = "dropped"
  /\ "EN" \in regs.ccr
  /\ "TCIF" \in isr
  /\ chain["dma"] = <<>>
  /\ fut["A"] = Dropped
  /\ pend = {}

\* C38: over sequential calls on a channel that starts disabled, every
\* write of the memory address and of the transfer count finds EN clear,
\* also in a call that follows a completed one, and no step of read /
\* write changes the peripheral address register.
C38_ProgramWhileDisabled ==
  [][ /\ (regs'.cmar # regs.cmar \/ Stored("set_maddr")) => "EN" \notin regs.ccr
      /\ (regs'.cndtr # regs.cndtr \/ Stored("set_size")) => "EN" \notin regs.ccr
      /\ regs'.cpar = regs.cpar
      /\ \A i \in 1..Len(log') : log'[i].op # "set_paddr"
    ]_vars

\* The second call has written the address and the count after the first
\* call completed and left the channel disabled.
C38_Witness ==
  /\ calls = 2
  /\ xfer = 1
  /\ pc.at = "body"
  /\ Logged("set_size", "none")
  /\ ~Logged("ccr_store", "EN")
  /\ "EN" \notin regs.ccr
  /\ regs.cndtr = MaxBufLen

(***************************************************************************)
(* SpecAddr: Spec over the slave addresses a u8 can hold, at the ends of   *)
(* its two halves.                                                         *)
(***************************************************************************)
AddrCases == {0, 1, 127, 128, 200, 255}
AddrFlags == {"TCIF", "NACKF"}

AddrCall ==
  /\ pc.at \in {"idle", "done"}
  /\ calls < MaxCalls
  /\ \E dir \in {"read", "write"}, addr \in AddrCases :
       call' = [drv |-> "I2CEn", dir |-> dir, len |-> 4, autoend |-> TRUE,
                addr |-> addr, cr1val |-> {}, cr2val |-> Cr2Reset]
  /\ calls' = calls + 1
  /\ pc' = [at |-> "created", i |-> 0, br |-> "none"]
  /\ result' = NoResult
  /\ log' = <<>>
  /\ UNCHANGED <<s3vars, hwvars, regs, xfer, heads>>

AddrHwRaise ==
  /\ xfer = calls
  /\ pc.at \in {"body", "await"}
  /\ \E fl \in AddrFlags : RaiseFlag(fl)
  /\ UNCHANGED <<s3vars, fut, chain, pend, inv, txvars, heads>>

NextAddr ==
  \/ AddrCall \/ TxStart \/ TxBody \/ TxPoll \/ TxCleanup
  \/ AddrHwRaise \/ TxDispatch

SpecAddr == Init /\ [][NextAddr]_vars

\* C39: the SADD stored with START is (slave_addr * 2) mod 256, a value of
\* 8 bits: twice the address for addresses 0 to 127, and for an address
\* from 128 to 255 the SADD of slave_addr - 128; no address makes the call
\* panic.
C39_SaddWraps ==
  [][ /\ Stored("cr2_store") =>
           /\ regs'.cr2.sadd = (call.addr * 2) % 256
           /\ regs'.cr2.sadd \in 0..254
           /\ call.addr <= 127 => regs'.cr2.sadd = 2 * call.addr
           /\ call.addr >= 128 => regs'.cr2.sadd = 2 * (call.addr - 128)
      /\ pc'.at # "panicked"
    ]_vars

\* Address 200 was programmed as 144, the SADD of address 72, and the call
\* went on to return.
C39_Witness ==
  /\ pc.at = "done"
  /\ call.addr = 200
  /\ regs.cr2.sadd = 144
  /\ result = OkResult

(***************************************************************************)
(* SpecTim: a basic timer.  sleep() attaches a future and interval() a     *)
(* stream of pulses to the timer's interrupt; both borrow the timer        *)
(* mutably, so one of them is live at a time.  The hardware sets UIF at    *)
(* each update event and requests the interrupt while UIF is set.          *)
(***************************************************************************)
Pulses == LogCount("pulse", "tim")

TimInit ==
  /\ S3Init
  /\ fut = [x \in ChildSet |-> NoFut]
  /\ chain = [l \in {"tim"} |-> <<>>]
  /\ isr = {}
  /\ pend = {}
  /\ inv = <<>>
  /\ raised = 0
  /\ TxIdle
  /\ heads = NoHeads

\* tim.sleep(duration, int) and tim.interval(duration, int).
TimAdd ==
  /\ calls < MaxFuts
  /\ \A y \in ChildSet : fut[y] \in {NoFut, Taken, Dropped}
  /\ \E kind \in {"sleep", "interval"}, x \in ChildSet :
       /\ \A y \in ChildSet : IndexOf(x) <= IndexOf(y)
       /\ AddFuture(kind, x)
  /\ calls' = calls + 1
  /\ UNCHANGED <<s3vars, isr, pend, inv, raised, pc, call, regs, xfer, result, log, heads>>

\* The task takes the value of the sleep future.
TimPoll ==
  /\ \E x \in ChildSet :
       /\ fut[x] \notin {NoFut, Pending, Taken, Dropped}
       /\ fut' = [fut EXCEPT ![x] = Taken]
  /\ UNCHANGED <<s3vars, chain, isr, pend, inv, raised, txvars, heads>>

\* The TimerSleep or TimerInterval is dropped.
TimDrop ==
  /\ \E x \in ChildSet :
       /\ fut[x] = Pending
       /\ fut' = [fut EXCEPT ![x] = Dropped]
       /\ chain' = [l \in DOMAIN chain |->
                     [i \in 1..Len(chain[l]) |->
                       IF chain[l][i].fut = x THEN [chain[l][i] EXCEPT !.open = FALSE]
                       ELSE chain[l][i]]]
  /\ UNCHANGED <<s3vars, isr, pend, inv, raised, txvars, heads>>

\* An update event.
TimHwRaise ==
  /\ RaiseFlag("UIF")
  /\ UNCHANGED <<s3vars, fut, chain, pend, inv, txvars, heads>>

\* The timer's interrupt handler runs; each Some(1) a stream's fiber
\* yields is a pulse of the stream.
TimDispatch ==
  /\ Pulses < MaxPulses
  /\ Dispatch("tim")
  /\ inv' = HandlerRun("tim").inv
  /\ log' = log \o [i \in 1..Cardinality({j \in 1..Len(inv') : inv'[j].res = YieldedSome}) |->
                      Op("pulse", "tim")]
  /\ UNCHANGED <<s3vars, raised, pc, call, calls, regs, xfer, result, heads>>

TimNext == TimAdd \/ TimPoll \/ TimDrop \/ TimHwRaise \/ TimDispatch

SpecTim == TimInit /\ [][TimNext]_vars

\* C40 as claimed: an invocation of the interval fiber that yields Some(1)
\* has cleared UIF, as an invocation of the sleep fiber that completes
\* has, so the stream has had no more pulses than there were update
\* events.
C40_PulseAcknowledged ==
  /\ \A i \in 1..Len(inv) :
       inv[i].res \in {YieldedSome, "Unit"} =>
         /\ "UIF" \in inv[i].seen
         /\ "UIF" \in UNION {ClearedBy(b) : b \in inv[i].wrote}
  /\ Pulses <= raised

\* One update event has produced two pulses, and UIF is still set.
C40_RepeatedPulse ==
  /\ raised = 1
  /\ Pulses = 2
  /\ "UIF" \in isr
  /\ \E x \in ChildSet : fut[x] = Pending

=============================================================================
